---- MODULE Spec2Model ----
(***************************************************************************)
(* TidyShelf: the inventory reconciliation and snapshot-restoration        *)
(* engine.  The model has one shop.  The remote catalog (collections,      *)
(* their order and sort mode, publications, variant quantities) and the    *)
(* local store (shop settings, collection rules, ProductSnapshot rows,     *)
(* ActivityLog rows) are the state; the exported service functions are     *)
(* operators over a "world" record w, so that the handlers compose them    *)
(* exactly as the code does, and the actions apply them to the variables.  *)
(***************************************************************************)
EXTENDS Integers, Sequences, FiniteSets, Bags, TLC

VARIABLES
    shop,         \* the Shop row with its collectionRules (settings.server.js)
    variants,     \* remote: product id -> sequence of variant inventoryQuantity
    collections,  \* remote: existing collection id -> [sortOrder, products]
    published,    \* remote: product id -> set of publications it is published on
    snapshots,    \* table ProductSnapshot: a bag of rows
    activityLog,  \* table ActivityLog: sequence of rows, oldest first
    sync,         \* the runFullSync call in progress, if any
    steps,        \* how many of the steps a specification bounds were taken
    before,       \* the world before the last direct call of an engine function
    tasks,        \* the engine calls in progress, each at one of its awaits
    webhooks,     \* the handleInventoryUpdate invocations in progress
    processingLock, \* the Map processingLock of the webhook route: its keys
    last          \* the operation that produced this state, and its result

vars == <<shop, variants, collections, published, snapshots, activityLog, sync, steps,
          before, tasks, webhooks, processingLock, last>>

----------------------------------------------------------------------------
(* The universe of identifiers.                                            *)

\* Listing orders of the remote: products(first: 50) in runFullSync,
\* product.collections in getProductCollections, resourcePublicationsV2.
ProductList == <<"p1", "p2", "p3">>
CollectionList == <<"c1", "c2">>
PublicationList == <<"ch1", "ch2">>

Range(s) == {s[i] : i \in 1..Len(s)}
Products == Range(ProductList)
CollectionIds == Range(CollectionList)
Publications == Range(PublicationList)

Behaviors == {"PUSH_TO_END", "HIDE", "EXCLUDE"}
DefaultBehaviors == {"PUSH_TO_END", "HIDE"}
SortOrders == {"MANUAL", "BEST_SELLING"}

\* SQL NULL in a string column, and in the integer column originalPosition.
NullId == "null"
NoPosition == <<>>

Min(a, b) == IF a <= b THEN a ELSE b

\* The page sizes of the queries that do not follow a cursor: products(first:
\* 250) of a collection, variants(first: 100) and resourcePublicationsV2(first:
\* 50) of a product; First is the page of a listing.
CollectionProductsFirst == 250
VariantsFirst == 100
PublicationsFirst == 50

First(seq, n) == SubSeq(seq, 1, Min(Len(seq), n))

----------------------------------------------------------------------------
(* Array helpers of the code, 0-based as in JavaScript.                    *)

\* Array.prototype.findIndex((p) => p.id === x): first index, or -1.
findIndex(seq, x) ==
    IF \E i \in 1..Len(seq) : seq[i] = x
    THEN (CHOOSE i \in 1..Len(seq) :
              seq[i] = x /\ \A j \in 1..(i - 1) : seq[j] # x) - 1
    ELSE -1

Without(seq, x) == SelectSeq(seq, LAMBDA y : y # x)

\* The remote's collectionReorderProducts with one move {id, newPosition}:
\* the product is taken out and put back at the 0-based newPosition (at the
\* end when newPosition is past it).
collectionReorderProductsAppending(products, productId, newPosition) ==
    Append(Without(products, productId), productId)

collectionReorderProducts(products, productId, newPosition) ==
    LET rest == Without(products, productId)
        pos == Min(newPosition, Len(rest))
    IN SubSeq(rest, 1, pos) \o <<productId>> \o SubSeq(rest, pos + 1, Len(rest))

\* A remote mutation answers with userErrors when the platform rejects it.
\* rej is the set of mutations <<kind, target>> the platform rejects during
\* the call; a reorder is also rejected on a collection that is not manually
\* sorted (part_003: "collectionReorderProducts requires MANUAL sort").
reorderRejected(w, collectionId, rej) ==
    \/ <<"reorder", collectionId>> \in rej
    \/ w.collections[collectionId].sortOrder # "MANUAL"

----------------------------------------------------------------------------
(* The ProductSnapshot table: a bag of rows.  A row's id is not modelled;  *)
(* update({where: {id}}) acts on the row that was read.                     *)

SnapshotRow(productId, collectionId, publicationId, action, status, originalPosition) ==
    [productId |-> productId, collectionId |-> collectionId,
     publicationId |-> publicationId, action |-> action, status |-> status,
     originalPosition |-> originalPosition]

\* The table restricted to some of its rows (what a where clause selects).
SubBagOf(snaps, rows) == [r \in rows |-> snaps[r]]

SameKey(r, productId, collectionId, action, status) ==
    /\ r.productId = productId
    /\ r.collectionId = collectionId
    /\ r.action = action
    /\ r.status = status

\* db.productSnapshot.upsert({where: {key, status: ACTIVE}, create, update: {}}):
\* creates the row unless a row with that unique key exists; update: {} leaves
\* the found row as it is.
upsertWithoutWhere(snaps, row) == snaps (+) SetToBag({row})

upsertNothing(snaps, row) == snaps

upsertOverwriting(snaps, row) ==
    SubBagOf(snaps, {r \in DOMAIN snaps :
                        ~ SameKey(r, row.productId, row.collectionId, row.action, row.status)})
    (+) SetToBag({row})

upsert(snaps, row) ==
    IF \E r \in DOMAIN snaps :
           SameKey(r, row.productId, row.collectionId, row.action, row.status)
    THEN snaps
    ELSE snaps (+) SetToBag({row})

\* db.productSnapshot.deleteMany({where: {key, status: "RESTORED"}}).
deleteManyRestoredNone(snaps, productId, collectionId, action) == snaps

deleteManyRestored(snaps, productId, collectionId, action) ==
    SubBagOf(snaps, {r \in DOMAIN snaps :
                        ~ SameKey(r, productId, collectionId, action, "RESTORED")})

\* db.productSnapshot.update({where: {id}, data: {status: "RESTORED", restoredAt}}).
updateRestoredKeepingActive(snaps, row) ==
    snaps (+) SetToBag({[row EXCEPT !.status = "RESTORED"]})

updateRestored(snaps, row) ==
    (snaps (-) SetToBag({row})) (+) SetToBag({[row EXCEPT !.status = "RESTORED"]})

----------------------------------------------------------------------------
(* settings.server.js                                                      *)

\* shopRecord.collectionRules?.find((r) => r.collectionId === collectionId):
\* the set holds the found rule, or nothing.
findRule(shopRecord, collectionId) ==
    {r \in shopRecord.collectionRules : r.collectionId = collectionId}

getEffectiveBehaviorIgnoringRules(shopRecord, collectionId) ==
    IF ~ shopRecord.enabled THEN "EXCLUDE"
    ELSE IF shopRecord.applyToAll THEN shopRecord.defaultBehavior
    ELSE "EXCLUDE"

getEffectiveBehavior(shopRecord, collectionId) ==
    IF ~ shopRecord.enabled THEN "EXCLUDE"
    ELSE IF findRule(shopRecord, collectionId) # {}
         THEN (CHOOSE r \in findRule(shopRecord, collectionId) : TRUE).behavior
    ELSE IF shopRecord.applyToAll THEN shopRecord.defaultBehavior
    ELSE "EXCLUDE"

----------------------------------------------------------------------------
(* The world the services act on: the remote catalog and the local tables. *)
(* Every service operator returns [w |-> the world after, res |-> result]. *)

\* auditFails tells whether db.activityLog.create throws during the operation.
World == [collections |-> collections, published |-> published,
          snapshots |-> snapshots, activityLog |-> activityLog, auditFails |-> FALSE]

\* The result objects {success, reason, skipped, publications}; an absent
\* property (undefined) is FALSE, "" or the empty list.
Result(success, reason, skipped, publications) ==
    [success |-> success, reason |-> reason, skipped |-> skipped,
     publications |-> publications]

Return(w, res) == [w |-> w, res |-> res]

\* logActivity: db.activityLog.create appends one row; a failure of the
\* create is caught and logged to the console only.
logActivityRollingBack(w, productId, action, detail) ==
    IF w.auditFails
    THEN [w EXCEPT !.snapshots =
             SubBagOf(@, {r \in DOMAIN @ : r.productId # productId \/ r.status # "ACTIVE"})]
    ELSE [w EXCEPT !.activityLog =
             Append(@, [productId |-> productId, action |-> action, detail |-> detail])]

logActivity(w, productId, action, detail) ==
    IF w.auditFails
    THEN w
    ELSE [w EXCEPT !.activityLog =
             Append(@, [productId |-> productId, action |-> action, detail |-> detail])]

----------------------------------------------------------------------------
(* collection-reorder.server.js: the reorder engine.                       *)

\* The index pushProductToEnd asks for: (products.length - 1).toString().
lastPositionOffByOne(products) == Len(products) - 2

lastPosition(products) == Len(products) - 1

activePushSnapshots(snaps, productId, collectionId) ==
    {r \in DOMAIN snaps : SameKey(r, productId, collectionId, "PUSHED_TO_END", "ACTIVE")}

pushProductToEnd(w, productId, collectionId, rej) ==
    IF collectionId \notin DOMAIN w.collections
    THEN Return(w, Result(FALSE, "Collection not found", FALSE, <<>>))
    ELSE
    LET collection == w.collections[collectionId]
        products == First(collection.products, CollectionProductsFirst)
        currentIndex == findIndex(products, productId)
        saved == [w EXCEPT !.snapshots =
                     upsert(@, SnapshotRow(productId, collectionId, NullId,
                                           "PUSHED_TO_END", "ACTIVE", <<currentIndex>>))]
    IN  IF collection.sortOrder # "MANUAL"
        THEN Return(w, Result(FALSE, "Collection uses a sort order that is not MANUAL", TRUE, <<>>))
        ELSE IF currentIndex = -1
        THEN Return(w, Result(FALSE, "Product not in collection", FALSE, <<>>))
        ELSE IF currentIndex = Len(products) - 1
        THEN Return(w, Result(TRUE, "Product already at end", FALSE, <<>>))
        ELSE IF reorderRejected(saved, collectionId, rej)
        THEN Return(saved, Result(FALSE, "userErrors", FALSE, <<>>))
        ELSE Return([saved EXCEPT !.collections[collectionId].products =
                        collectionReorderProducts(products, productId, lastPosition(products))],
                    Result(TRUE, "", FALSE, <<>>))

\* snapshot.originalPosition ?? 0
positionAlwaysZero(originalPosition) == 0

positionOrZero(originalPosition) ==
    IF originalPosition = NoPosition THEN 0 ELSE originalPosition[1]

\* Math.min(snapshot.originalPosition ?? 0, products.length - 1): the
\* newPosition restoreProductPosition asks for.
targetPositionUnclamped(originalPosition, products) == positionOrZero(originalPosition)

targetPosition(originalPosition, products) ==
    Min(positionOrZero(originalPosition), Len(products) - 1)

markRestored(snaps, snapshot) ==
    updateRestored(deleteManyRestored(snaps, snapshot.productId, snapshot.collectionId,
                                      snapshot.action),
                   snapshot)

restoreProductPosition(w, productId, collectionId, rej) ==
    LET found == activePushSnapshots(w.snapshots, productId, collectionId)
    IN  IF found = {}
        THEN Return(w, Result(FALSE, "No active snapshot found", FALSE, <<>>))
        ELSE
        LET snapshot == CHOOSE r \in found : TRUE
            products == IF collectionId \in DOMAIN w.collections
                        THEN First(w.collections[collectionId].products,
                                   CollectionProductsFirst)
                        ELSE <<>>
            currentIndex == findIndex(products, productId)
            cleared == [w EXCEPT !.snapshots = markRestored(@, snapshot)]
        IN  IF currentIndex = -1
            THEN Return(cleared, Result(TRUE, "Product no longer in collection, snapshot cleared",
                                        FALSE, <<>>))
            ELSE IF reorderRejected(w, collectionId, rej)
            THEN Return(w, Result(FALSE, "userErrors", FALSE, <<>>))
            ELSE Return([cleared EXCEPT !.collections[collectionId].products =
                            collectionReorderProducts(
                                products, productId,
                                targetPosition(snapshot.originalPosition, products))],
                        Result(TRUE, "", FALSE, <<>>))

----------------------------------------------------------------------------
(* The visibility engine (hideProduct, restoreProductVisibility).          *)

\* resourcePublicationsV2 nodes with isPublished, in listing order.
publishedOnesUnfiltered(w, productId) == First(PublicationList, PublicationsFirst)

publishedOnes(w, productId) ==
    SelectSeq(First(PublicationList, PublicationsFirst),
              LAMBDA pub : pub \in w.published[productId])

\* The body of hideProduct's for loop, over the publications still to do.
RECURSIVE hideLoopStopping(_, _, _, _, _)
hideLoopStopping(w, productId, pubs, rej, results) ==
    IF pubs = <<>> THEN [w |-> w, results |-> results]
    ELSE
    LET publicationId == Head(pubs)
        saved == [w EXCEPT !.snapshots =
                     upsert(@, SnapshotRow(productId, publicationId, publicationId,
                                           "HIDDEN", "ACTIVE", NoPosition))]
        ok == <<"unpublish", publicationId>> \notin rej
    IN IF ok
       THEN hideLoopStopping([saved EXCEPT !.published[productId] = @ \ {publicationId}],
                             productId, Tail(pubs), rej,
                             Append(results, [publicationId |-> publicationId, success |-> ok]))
       ELSE [w |-> saved,
             results |-> Append(results, [publicationId |-> publicationId, success |-> ok])]

RECURSIVE hideLoop(_, _, _, _, _)
hideLoop(w, productId, pubs, rej, results) ==
    IF pubs = <<>> THEN [w |-> w, results |-> results]
    ELSE
    LET publicationId == Head(pubs)
        saved == [w EXCEPT !.snapshots =
                     upsert(@, SnapshotRow(productId, publicationId, publicationId,
                                           "HIDDEN", "ACTIVE", NoPosition))]
        ok == <<"unpublish", publicationId>> \notin rej
        after == IF ok
                 THEN [saved EXCEPT !.published[productId] = @ \ {publicationId}]
                 ELSE saved
    IN hideLoop(after, productId, Tail(pubs), rej,
                Append(results, [publicationId |-> publicationId, success |-> ok]))

allSucceeded(results) == \A i \in 1..Len(results) : results[i].success

hideProduct(w, productId, rej) ==
    IF publishedOnes(w, productId) = <<>>
    THEN Return(w, Result(TRUE, "Product already unpublished from all channels", FALSE, <<>>))
    ELSE LET done == hideLoop(w, productId, publishedOnes(w, productId), rej, <<>>)
         IN Return(done.w, Result(allSucceeded(done.results), "", FALSE, done.results))

\* findMany({where: {shopId, productId, action: "HIDDEN", status: "ACTIVE"}}),
\* in the order of the publication list.
firstActiveHiddenSnapshot(snaps, productId) ==
    LET found == {r \in DOMAIN snaps : /\ r.productId = productId
                                        /\ r.action = "HIDDEN"
                                        /\ r.status = "ACTIVE"}
        all == SelectSeq(PublicationList, LAMBDA pub : \E r \in found : r.collectionId = pub)
    IN SubSeq(all, 1, Min(1, Len(all)))

activeHiddenSnapshots(snaps, productId) ==
    LET found == {r \in DOMAIN snaps : /\ r.productId = productId
                                        /\ r.action = "HIDDEN"
                                        /\ r.status = "ACTIVE"}
    IN SelectSeq(PublicationList, LAMBDA pub : \E r \in found : r.collectionId = pub)

\* The body of restoreProductVisibility's for loop.
RECURSIVE restoreLoop(_, _, _, _, _)
restoreLoop(w, productId, pubs, rej, results) ==
    IF pubs = <<>> THEN [w |-> w, results |-> results]
    ELSE
    LET snapshot == CHOOSE r \in DOMAIN w.snapshots :
                        SameKey(r, productId, Head(pubs), "HIDDEN", "ACTIVE")
        publicationId == snapshot.publicationId
        ok == <<"publish", publicationId>> \notin rej
        republished == IF ok
                       THEN [w EXCEPT !.published[productId] = @ \cup {publicationId}]
                       ELSE w
        marked == [republished EXCEPT !.snapshots = markRestored(@, snapshot)]
    IN restoreLoop(marked, productId, Tail(pubs), rej,
                   Append(results, [publicationId |-> publicationId, success |-> ok]))

restoreProductVisibility(w, productId, rej) ==
    IF activeHiddenSnapshots(w.snapshots, productId) = <<>>
    THEN Return(w, Result(TRUE, "No hidden snapshots to restore", FALSE, <<>>))
    ELSE LET done == restoreLoop(w, productId, activeHiddenSnapshots(w.snapshots, productId),
                                 rej, <<>>)
         IN Return(done.w, Result(allSucceeded(done.results), "", FALSE, done.results))

----------------------------------------------------------------------------
(* inventory.server.js                                                     *)

\* variants.length > 0 && variants.every((v) => v.inventoryQuantity <= 0), as
\* runFullSync evaluates it on the variants of a product node.
isFullyOutOfStock(vs) ==
    Len(vs) > 0 /\ \A i \in 1..Len(vs) : vs[i] <= 0

\* checkProductInventory once the inventory item is resolved to productId: the
\* query of the product with variants(first: 100) and the value it returns.
checkProductInventory(vs, productId) ==
    LET nodes == First(vs[productId], VariantsFirst)
    IN [product |-> productId,
        isFullyOutOfStock |-> Len(nodes) > 0 /\ \A i \in 1..Len(nodes) : ~ (nodes[i] > 0)]

\* getProductCollections: the collections that contain the product, in the
\* remote's listing order.
getProductCollections(w, productId) ==
    SelectSeq(CollectionList,
              LAMBDA c : c \in DOMAIN w.collections
                         /\ findIndex(w.collections[c].products, productId) # -1)

----------------------------------------------------------------------------
(* sync.server.js                                                          *)

\* The body of handleOutOfStock's for loop over the product's collections;
\* a HIDE ends the loop (break).
RECURSIVE outOfStockLoopContinuing(_, _, _, _, _)
outOfStockLoopContinuing(w, shopRecord, productId, colls, rej) ==
    IF colls = <<>> THEN w
    ELSE
    LET c == Head(colls)
        behavior == getEffectiveBehavior(shopRecord, c)
    IN  IF behavior = "EXCLUDE"
        THEN outOfStockLoopContinuing(
                 logActivity(w, productId, "SKIPPED", <<"Excluded collection", c>>),
                 shopRecord, productId, Tail(colls), rej)
        ELSE IF behavior = "PUSH_TO_END"
        THEN LET r == pushProductToEnd(w, productId, c, rej)
                 logged ==
                    IF r.res.skipped
                    THEN logActivity(r.w, productId, "SKIPPED", <<"Skipped", c>>)
                    ELSE IF r.res.success
                    THEN logActivity(r.w, productId, "DEPRIORITIZED", <<"Pushed to end of", c>>)
                    ELSE logActivity(r.w, productId, "SKIPPED", <<"Failed in", c>>)
             IN outOfStockLoopContinuing(logged, shopRecord, productId, Tail(colls), rej)
        ELSE IF behavior = "HIDE"
        THEN LET r == hideProduct(w, productId, rej)
                 logged ==
                    IF r.res.success
                    THEN logActivity(r.w, productId, "HIDDEN", <<"Hidden from storefront">>)
                    ELSE logActivity(r.w, productId, "SKIPPED", <<"Failed to hide">>)
             IN outOfStockLoopContinuing(logged, shopRecord, productId, Tail(colls), rej)
        ELSE outOfStockLoopContinuing(w, shopRecord, productId, Tail(colls), rej)

RECURSIVE outOfStockLoopEndingAtExclude(_, _, _, _, _)
outOfStockLoopEndingAtExclude(w, shopRecord, productId, colls, rej) ==
    IF colls = <<>> THEN w
    ELSE
    LET c == Head(colls)
        behavior == getEffectiveBehavior(shopRecord, c)
    IN  IF behavior = "EXCLUDE"
        THEN logActivity(w, productId, "SKIPPED", <<"Excluded collection", c>>)
        ELSE IF behavior = "PUSH_TO_END"
        THEN LET r == pushProductToEnd(w, productId, c, rej)
                 logged ==
                    IF r.res.skipped
                    THEN logActivity(r.w, productId, "SKIPPED", <<"Skipped", c>>)
                    ELSE IF r.res.success
                    THEN logActivity(r.w, productId, "DEPRIORITIZED", <<"Pushed to end of", c>>)
                    ELSE logActivity(r.w, productId, "SKIPPED", <<"Failed in", c>>)
             IN outOfStockLoopEndingAtExclude(logged, shopRecord, productId, Tail(colls), rej)
        ELSE IF behavior = "HIDE"
        THEN LET r == hideProduct(w, productId, rej)
             IN IF r.res.success
                THEN logActivity(r.w, productId, "HIDDEN", <<"Hidden from storefront">>)
                ELSE logActivity(r.w, productId, "SKIPPED", <<"Failed to hide">>)
        ELSE outOfStockLoopEndingAtExclude(w, shopRecord, productId, Tail(colls), rej)

RECURSIVE outOfStockLoop(_, _, _, _, _)
outOfStockLoop(w, shopRecord, productId, colls, rej) ==
    IF colls = <<>> THEN w
    ELSE
    LET c == Head(colls)
        behavior == getEffectiveBehavior(shopRecord, c)
    IN  IF behavior = "EXCLUDE"
        THEN outOfStockLoop(logActivity(w, productId, "SKIPPED", <<"Excluded collection", c>>),
                            shopRecord, productId, Tail(colls), rej)
        ELSE IF behavior = "PUSH_TO_END"
        THEN LET r == pushProductToEnd(w, productId, c, rej)
                 logged ==
                    IF r.res.skipped
                    THEN logActivity(r.w, productId, "SKIPPED", <<"Skipped", c>>)
                    ELSE IF r.res.success
                    THEN logActivity(r.w, productId, "DEPRIORITIZED", <<"Pushed to end of", c>>)
                    ELSE logActivity(r.w, productId, "SKIPPED", <<"Failed in", c>>)
             IN outOfStockLoop(logged, shopRecord, productId, Tail(colls), rej)
        ELSE IF behavior = "HIDE"
        THEN LET r == hideProduct(w, productId, rej)
             IN IF r.res.success
                THEN logActivity(r.w, productId, "HIDDEN", <<"Hidden from storefront">>)
                ELSE logActivity(r.w, productId, "SKIPPED", <<"Failed to hide">>)
        ELSE outOfStockLoop(w, shopRecord, productId, Tail(colls), rej)

handleOutOfStock(w, shopRecord, productId, rej) ==
    LET colls == getProductCollections(w, productId)
        looped == outOfStockLoop(w, shopRecord, productId, colls, rej)
        behavior == IF shopRecord.applyToAll THEN shopRecord.defaultBehavior ELSE "EXCLUDE"
    IN  IF Len(colls) = 0 /\ behavior = "HIDE"
        THEN LET r == hideProduct(looped, productId, rej)
             IN IF r.res.success
                THEN logActivity(r.w, productId, "HIDDEN",
                                 <<"Hidden from storefront (no collections)">>)
                ELSE r.w
        ELSE looped

\* handleBackInStock's for loop over the ACTIVE PUSHED_TO_END rows read at its
\* start, given by their collectionId.
RECURSIVE backInStockLoop(_, _, _, _)
backInStockLoop(w, productId, colls, rej) ==
    IF colls = <<>> THEN w
    ELSE LET r == restoreProductPosition(w, productId, Head(colls), rej)
             logged == logActivity(r.w, productId, "RESTORED_POSITION",
                                   IF r.res.success THEN <<"Restored in collection">>
                                   ELSE <<"Failed to restore">>)
         IN backInStockLoop(logged, productId, Tail(colls), rej)

handleBackInStock(w, shopRecord, productId, rej) ==
    LET pushSnapshots ==
            SelectSeq(CollectionList,
                      LAMBDA c : activePushSnapshots(w.snapshots, productId, c) # {})
        positioned == backInStockLoop(w, productId, pushSnapshots, rej)
        restoreResult == restoreProductVisibility(positioned, productId, rej)
    IN  IF Len(restoreResult.res.publications) > 0
        THEN logActivity(restoreResult.w, productId, "RESTORED_VISIBILITY",
                         <<"Re-published to channel(s)">>)
        ELSE restoreResult.w

\* findMany({where: {shopId, productId, status: "ACTIVE"}})
activeSnapshotsNone(snaps, productId) == {}

activeSnapshots(snaps, productId) ==
    {r \in DOMAIN snaps : r.productId = productId /\ r.status = "ACTIVE"}

\* One reconciliation pass of the webhook, handleInventoryUpdate's try block
\* once the inventory item is resolved to its product.
webhookReconcileIgnoringEnabled(w, shopRecord, vs, productId, rej) ==
    LET oos == checkProductInventory(vs, productId).isFullyOutOfStock
        act == activeSnapshots(w.snapshots, productId)
    IN  IF oos /\ act = {}
        THEN [w |-> handleOutOfStock(w, shopRecord, productId, rej), branch |-> "apply"]
        ELSE IF ~ oos /\ act # {}
        THEN [w |-> handleBackInStock(w, shopRecord, productId, rej), branch |-> "restore"]
        ELSE [w |-> w, branch |-> "none"]

webhookReconcile(w, shopRecord, vs, productId, rej) ==
    LET oos == checkProductInventory(vs, productId).isFullyOutOfStock
        act == activeSnapshots(w.snapshots, productId)
    IN  IF ~ shopRecord.enabled THEN [w |-> w, branch |-> "disabled"]
        ELSE IF oos /\ act = {}
        THEN [w |-> handleOutOfStock(w, shopRecord, productId, rej), branch |-> "apply"]
        ELSE IF ~ oos /\ act # {}
        THEN [w |-> handleBackInStock(w, shopRecord, productId, rej), branch |-> "restore"]
        ELSE [w |-> w, branch |-> "none"]

\* currentBehaviors of runFullSync: the behaviors of the product's collections,
\* and the default for a product in no collection.
currentBehaviors(w, shopRecord, productId) ==
    LET colls == getProductCollections(w, productId)
    IN {getEffectiveBehavior(shopRecord, colls[i]) : i \in 1..Len(colls)}
       \cup (IF Len(colls) = 0 /\ shopRecord.applyToAll
             THEN {shopRecord.defaultBehavior} ELSE {})

\* One reconciliation pass of runFullSync: the body of its loop over the
\* products of a page.
syncReconcile(w, shopRecord, vs, productId, rej) ==
    LET oos == isFullyOutOfStock(First(vs[productId], VariantsFirst))
        act == activeSnapshots(w.snapshots, productId)
        behaviors == currentBehaviors(w, shopRecord, productId)
        snapshotActions == {r.action : r \in act}
        behaviorNeedsHide == "HIDE" \in behaviors
        behaviorNeedsPush == "PUSH_TO_END" \in behaviors
        hasHiddenSnapshot == "HIDDEN" \in snapshotActions
        hasPushedSnapshot == "PUSHED_TO_END" \in snapshotActions
        reapplied == handleOutOfStock(handleBackInStock(w, shopRecord, productId, rej),
                                      shopRecord, productId, rej)
    IN  IF oos
        THEN IF act = {}
             THEN [w |-> handleOutOfStock(w, shopRecord, productId, rej), branch |-> "apply"]
             ELSE IF behaviorNeedsHide /\ ~ hasHiddenSnapshot
             THEN [w |-> reapplied, branch |-> "reapply"]
             ELSE IF behaviorNeedsPush /\ ~ hasPushedSnapshot
             THEN [w |-> reapplied, branch |-> "reapply"]
             ELSE [w |-> w, branch |-> "none"]
        ELSE IF act # {}
        THEN [w |-> handleBackInStock(w, shopRecord, productId, rej), branch |-> "restore"]
        ELSE [w |-> w, branch |-> "none"]

----------------------------------------------------------------------------
(* Bounds of the model.                                                    *)

\* Longest activity log: an operation that would make it longer is not taken.
MaxLog == 3
\* Most changes the merchant makes (settings, rules, stock, collections).
MaxEdits == 3

Mutations == ({"reorder"} \X CollectionIds) \cup ({"unpublish", "publish"} \X Publications)
\* The sets of rejected mutations an operation is tried with: any, or at most one.
RejectSets == SUBSET Mutations
SingleRejects == {R \in SUBSET (Mutations \ {<<"unpublish", "ch2">>, <<"publish", "ch2">>}) :
                     Cardinality(R) <= 1}

----------------------------------------------------------------------------
(* State and actions.                                                      *)

\* A new Shop row: db.shop.upsert({create: {domain}}) with the schema defaults
\* (test-db.mjs, Test 1).
NewShop == [enabled |-> TRUE, defaultBehavior |-> "PUSH_TO_END", applyToAll |-> TRUE,
            collectionRules |-> {}]

NoSync == [running |-> FALSE, shopRecord |-> NewShop, todo |-> <<>>, processed |-> 0]

\* What is recorded of an operation: its name and arguments, the mutations the
\* platform was set to reject during it, the branch a reconciliation pass took
\* and the result an exported service function returned.
Op(op, productId, collectionId, rej, branch, res) ==
    [op |-> op, productId |-> productId, collectionId |-> collectionId, rej |-> rej,
     branch |-> branch, success |-> res.success, skipped |-> res.skipped]

NoResult == Result(TRUE, "", FALSE, <<>>)

\* The concurrent invocations of engine functions.  An invocation is at one of
\* its awaits (pc) and holds what it has read so far: the products of the
\* collection, the originalPosition of the snapshot found, the publications
\* still to go through, and for each snapshot row it found (by its scope) what
\* has become of that row since: "active", "restored" or "deleted".
Tasks == {1, 2}

Task(pc, productId, collectionId, action, products, position, todo, refs) ==
    [pc |-> pc, productId |-> productId, collectionId |-> collectionId, action |-> action,
     products |-> products, position |-> position, todo |-> todo, refs |-> refs]

NoRefs == [scope \in {} |-> "active"]
Idle == Task("idle", NullId, NullId, "", <<>>, NoPosition, <<>>, NoRefs)

\* The concurrent invocations of handleInventoryUpdate.  An invocation is at one
\* of its awaits (pc) and holds the inventory item of its notification, the shop
\* record it loaded, and the product and isFullyOutOfStock that
\* checkProductInventory returned to it.
Webhook(pc, inventoryItemId, shopRecord, productId, oos) ==
    [pc |-> pc, inventoryItemId |-> inventoryItemId, shopRecord |-> shopRecord,
     productId |-> productId, isFullyOutOfStock |-> oos]

NoWebhook == Webhook("idle", NullId, NewShop, NullId, FALSE)

\* The rejections to record: none when the operation left everything as it was.
Effective(w, rej) == IF w = World THEN {} ELSE rej

\* A change made by the merchant counts against MaxEdits.
Edit(A) ==
    /\ steps < MaxEdits
    /\ steps' = steps + 1
    /\ A

SetWorld(w) ==
    /\ Len(w.activityLog) <= MaxLog
    /\ collections' = w.collections
    /\ published' = w.published
    /\ snapshots' = w.snapshots
    /\ activityLog' = w.activityLog

\* The catalog at the start: c1 holds every product and c2 two of them, c2 sorted
\* as given; the products have the given variant quantities and publications.
InitCatalog(sortOrderOfC2, quantities, publications) ==
    /\ shop = NewShop
    /\ variants = quantities
    /\ collections = [c \in CollectionIds |->
                        IF c = "c1"
                        THEN [sortOrder |-> "MANUAL", products |-> <<"p1", "p2", "p3">>]
                        ELSE [sortOrder |-> sortOrderOfC2, products |-> <<"p2", "p3">>]]
    /\ published = publications
    /\ snapshots = EmptyBag
    /\ activityLog = <<>>
    /\ sync = NoSync
    /\ steps = 0
    /\ before = World
    /\ tasks = [t \in Tasks |-> Idle]
    /\ webhooks = [t \in Tasks |-> NoWebhook]
    /\ processingLock = {}
    /\ last = Op("init", NullId, NullId, {}, "", NoResult)

\* Every product has one variant in stock; p1 is published on both channels, p2
\* and p3 on none.
InitWith(sortOrderOfC2) ==
    InitCatalog(sortOrderOfC2, [p \in Products |-> <<1>>],
                [p \in Products |-> IF p = "p1" THEN Publications ELSE {}])

Init == InitWith("MANUAL")

\* updateSettings(domain, data)
UpdateSettings(enabled, defaultBehavior, applyToAll) ==
    /\ <<enabled, defaultBehavior, applyToAll>> #
           <<shop.enabled, shop.defaultBehavior, shop.applyToAll>>
    /\ shop' = [shop EXCEPT !.enabled = enabled, !.defaultBehavior = defaultBehavior,
                            !.applyToAll = applyToAll]
    /\ last' = Op("updateSettings", NullId, NullId, {}, "", NoResult)
    /\ UNCHANGED <<variants, collections, published, snapshots, activityLog, sync, before,
                   tasks, webhooks, processingLock>>

\* upsertCollectionRule(shopId, collectionId, data)
UpsertCollectionRule(collectionId, behavior) ==
    /\ shop' = [shop EXCEPT !.collectionRules =
                   {r \in @ : r.collectionId # collectionId}
                   \cup {[collectionId |-> collectionId, behavior |-> behavior]}]
    /\ last' = Op("upsertCollectionRule", NullId, NullId, {}, "", NoResult)
    /\ UNCHANGED <<variants, collections, published, snapshots, activityLog, sync, before,
                   tasks, webhooks, processingLock>>

\* deleteCollectionRule(shopId, collectionId)
DeleteCollectionRule(collectionId) ==
    /\ shop' = [shop EXCEPT !.collectionRules = {r \in @ : r.collectionId # collectionId}]
    /\ last' = Op("deleteCollectionRule", NullId, collectionId, {}, "", NoResult)
    /\ UNCHANGED <<variants, collections, published, snapshots, activityLog, sync, before,
                   tasks, webhooks, processingLock>>

\* The merchant's stock changes: the remote's variant quantities of a product.
SetInventory(productId, vs) ==
    /\ variants[productId] # vs
    /\ variants' = [variants EXCEPT ![productId] = vs]
    /\ last' = Op("setInventory", NullId, NullId, {}, "", NoResult)
    /\ UNCHANGED <<shop, collections, published, snapshots, activityLog, sync, before, tasks,
                   webhooks, processingLock>>

\* The merchant takes products out of a collection (collectionRemoveProducts).
RemoveFromCollection(productIds, collectionId) ==
    /\ collectionId \in DOMAIN collections
    /\ productIds # {}
    /\ productIds \subseteq Range(collections[collectionId].products)
    /\ collections' = [collections EXCEPT ![collectionId].products =
                          SelectSeq(@, LAMBDA p : p \notin productIds)]
    /\ last' = Op("removeFromCollection", NullId, NullId, {}, "", NoResult)
    /\ UNCHANGED <<shop, variants, published, snapshots, activityLog, sync, before, tasks,
                   webhooks, processingLock>>

\* handleInventoryUpdate for a notification about an inventory item of productId.
WebhookPass(productId, rej) ==
    LET r == webhookReconcile(World, shop, variants, productId, rej)
    IN  /\ SetWorld(r.w)
        /\ last' = Op("webhook", productId, NullId, Effective(r.w, rej), r.branch, NoResult)
        /\ UNCHANGED <<shop, variants, sync, steps, before, tasks, webhooks, processingLock>>

\* runFullSync up to its loop: getOrCreateShop, and the return when disabled.
SyncStart ==
    /\ ~ sync.running
    /\ sync' = IF shop.enabled
               THEN [running |-> TRUE, shopRecord |-> shop, todo |-> ProductList,
                     processed |-> 0]
               ELSE NoSync
    /\ last' = Op("syncStart", NullId, NullId, {}, IF shop.enabled THEN "" ELSE "disabled", NoResult)
    /\ UNCHANGED <<shop, variants, collections, published, snapshots, activityLog, steps,
                   before, tasks, webhooks, processingLock>>

\* runFullSync's loop body for the next product; after the last one it returns.
SyncStep(rej) ==
    /\ sync.running
    /\ LET productId == Head(sync.todo)
           r == syncReconcile(World, sync.shopRecord, variants, productId, rej)
       IN  /\ SetWorld(r.w)
           /\ sync' = IF Len(sync.todo) = 1 THEN NoSync
                      ELSE [sync EXCEPT !.todo = Tail(@), !.processed = @ + 1]
           /\ last' = Op("sync", productId, NullId, Effective(r.w, rej), r.branch, NoResult)
    /\ UNCHANGED <<shop, variants, steps, before, tasks, webhooks, processingLock>>

SellingProducts == {"p1", "p2"}

Next ==
    \/ \E e \in BOOLEAN : Edit(UpdateSettings(e, shop.defaultBehavior, shop.applyToAll))
    \/ \E c \in CollectionIds, b \in Behaviors : Edit(UpsertCollectionRule(c, b))
    \/ \E p \in SellingProducts, vs \in {<<0>>, <<1>>} : Edit(SetInventory(p, vs))
    \/ \E ps \in SUBSET Products : Edit(RemoveFromCollection(ps, "c1"))
    \/ \E p \in SellingProducts, rej \in SingleRejects : WebhookPass(p, rej)
    \/ SyncStart
    \/ \E rej \in SingleRejects : SyncStep(rej)

Spec == Init /\ [][Next]_vars

----------------------------------------------------------------------------
(* The settings of a shop on their own: every configuration and rule set   *)
(* the settings page can produce, and the behavior resolved from them.     *)

\* The ids a behavior is resolved for: the collections, and one that no rule names.
ResolveIds == CollectionIds \cup {"c3"}

\* A call getEffectiveBehavior(shopRecord, collectionId) on the stored shop;
\* the value it returns is recorded as the branch of the operation.
Resolve(collectionId) ==
    /\ last' = Op("getEffectiveBehavior", NullId, collectionId, {},
                  getEffectiveBehavior(shop, collectionId), NoResult)
    /\ UNCHANGED <<shop, variants, collections, published, snapshots, activityLog, sync, steps,
                   before, tasks, webhooks, processingLock>>

\* A change of the settings that counts against no bound.
Unbounded(A) == A /\ UNCHANGED steps

NextSettings ==
    \/ \E e \in BOOLEAN, d \in DefaultBehaviors, a \in BOOLEAN :
          Unbounded(UpdateSettings(e, d, a))
    \/ \E c \in CollectionIds, b \in Behaviors : Unbounded(UpsertCollectionRule(c, b))
    \/ \E c \in CollectionIds : Unbounded(DeleteCollectionRule(c))
    \/ \E c \in ResolveIds : Resolve(c)

SpecSettings == Init /\ [][NextSettings]_vars

\* The rules of the stored shop for collection c.
RulesFor(c) == {r \in shop.collectionRules : r.collectionId = c}

\* C1: getEffectiveBehavior returns EXCLUDE when the shop is disabled; otherwise
\* the behavior of the rule whose collectionId equals the target when one
\* exists; otherwise defaultBehavior when applyToAll is true; otherwise EXCLUDE.
\* It always returns a behavior, and the call changes no state.
C1_ResolveBehavior ==
    [][\A c \in ResolveIds :
          last'.op = "getEffectiveBehavior" /\ last'.collectionId = c
          => /\ last'.branch \in Behaviors
             /\ ~ shop.enabled => last'.branch = "EXCLUDE"
             /\ shop.enabled /\ RulesFor(c) # {}
                   => \A r \in RulesFor(c) : last'.branch = r.behavior
             /\ shop.enabled /\ RulesFor(c) = {} /\ shop.applyToAll
                   => last'.branch = shop.defaultBehavior
             /\ shop.enabled /\ RulesFor(c) = {} /\ ~ shop.applyToAll
                   => last'.branch = "EXCLUDE"
             /\ UNCHANGED <<shop, variants, collections, published, snapshots, activityLog>>]_vars

\* A behavior was resolved for a collection whose rule differs from the default
\* of an enabled shop that applies the default to all: the rule's behavior won.
C1_Witness ==
    /\ last.op = "getEffectiveBehavior"
    /\ shop.enabled
    /\ shop.applyToAll
    /\ \E r \in shop.collectionRules :
          /\ r.collectionId = last.collectionId
          /\ r.behavior # shop.defaultBehavior
          /\ last.branch = r.behavior

----------------------------------------------------------------------------
(* Reconciliation passes: what the claims say of one step of Spec.         *)

\* The step is a reconciliation pass for product p (webhook or full sync).
IsPass(p) == last'.op \in {"webhook", "sync"} /\ last'.productId = p

\* The shop record the pass works with: runFullSync loads it once, at its start.
PassShop == IF last'.op = "sync" THEN sync.shopRecord ELSE shop

\* The activity records the step appended.
Appended == SubSeq(activityLog', Len(activityLog) + 1, Len(activityLog'))

CountLog(log, productId, action) ==
    Cardinality({i \in 1..Len(log) : log[i].productId = productId /\ log[i].action = action})

CountLogFor(log, productId, action, detail) ==
    Cardinality({i \in 1..Len(log) : /\ log[i].productId = productId
                                     /\ log[i].action = action
                                     /\ log[i].detail = detail})

ActiveRows(snaps, productId, action) ==
    SubBagOf(snaps, {r \in DOMAIN snaps : /\ r.productId = productId
                                           /\ r.action = action
                                           /\ r.status = "ACTIVE"})

ActiveKeyRows(snaps, productId, collectionId, action) ==
    SubBagOf(snaps, {r \in DOMAIN snaps :
                        SameKey(r, productId, collectionId, action, "ACTIVE")})

\* Product p, out of stock and without ACTIVE snapshot, is in the manually
\* ordered collection c, not last, and the pass resolves c to PUSH_TO_END.
C6Case(p, c) ==
    /\ activeSnapshots(snapshots, p) = {}
    /\ isFullyOutOfStock(variants[p])
    /\ c \in DOMAIN collections
    /\ collections[c].sortOrder = "MANUAL"
    /\ findIndex(collections[c].products, p) \notin {-1, Len(collections[c].products) - 1}
    /\ getEffectiveBehavior(PassShop, c) = "PUSH_TO_END"

\* p is now last in c, one ACTIVE PUSHED_TO_END row records the index it had,
\* and one DEPRIORITIZED record for c was appended.
C6Post(p, c) ==
    /\ findIndex(collections'[c].products, p) = Len(collections[c].products) - 1
    /\ ActiveKeyRows(snapshots', p, c, "PUSHED_TO_END") =
          SetToBag({SnapshotRow(p, c, NullId, "PUSHED_TO_END", "ACTIVE",
                                <<findIndex(collections[c].products, p)>>)})
    /\ CountLogFor(Appended, p, "DEPRIORITIZED", <<"Pushed to end of", c>>) = 1

\* No collection that the remote lists for p before c resolves to HIDE.
NoHideBefore(p, c) ==
    LET colls == getProductCollections(World, p)
    IN \A i \in 1..Len(colls) :
          i - 1 < findIndex(colls, c) => getEffectiveBehavior(PassShop, colls[i]) # "HIDE"

RecordedPosition(r) == r.originalPosition[1]

\* Product p has ACTIVE snapshots and is not fully out of stock, and the pass
\* evaluates it (the webhook returns early for a disabled shop).
C7Case(p) ==
    /\ activeSnapshots(snapshots, p) # {}
    /\ ~ isFullyOutOfStock(variants[p])
    /\ last'.op = "webhook" => shop.enabled

\* The remote accepts what the restore of p's snapshots asks of it: the reorder
\* in every collection that still holds p, and every publish.
C7Accepted(p) ==
    /\ \A r \in activeSnapshots(snapshots, p) :
          /\ r.action = "PUSHED_TO_END"
          /\ r.collectionId \in DOMAIN collections
          /\ findIndex(collections[r.collectionId].products, p) # -1
          => ~ reorderRejected(World, r.collectionId, last'.rej)
    /\ \A r \in activeSnapshots(snapshots, p) :
          r.action = "HIDDEN" => <<"publish", r.publicationId>> \notin last'.rej

\* No ACTIVE snapshot of p is left, every former one is RESTORED, and one
\* RESTORED_POSITION record was appended per push snapshot.
C7Restored(p) ==
    /\ activeSnapshots(snapshots', p) = {}
    /\ \A r \in activeSnapshots(snapshots, p) :
          BagIn([r EXCEPT !.status = "RESTORED"], snapshots')
    /\ CountLog(Appended, p, "RESTORED_POSITION")
          = BagCardinality(ActiveRows(snapshots, p, "PUSHED_TO_END"))

C7_WitnessExact ==
    /\ last.op \in {"webhook", "sync"}
    /\ last.branch = "restore"
    /\ \E r \in DOMAIN snapshots :
          /\ SameKey(r, last.productId, r.collectionId, "PUSHED_TO_END", "RESTORED")
          /\ findIndex(collections[r.collectionId].products, last.productId)
                = RecordedPosition(r)
          /\ RecordedPosition(r) > 0

\* Product p is out of stock with an ACTIVE HIDDEN snapshot and no ACTIVE
\* PUSHED_TO_END one, and its only collection now resolves to PUSH_TO_END.
C8Case(p) ==
    /\ isFullyOutOfStock(variants[p])
    /\ BagCardinality(ActiveRows(snapshots, p, "HIDDEN")) > 0
    /\ BagCardinality(ActiveRows(snapshots, p, "PUSHED_TO_END")) = 0
    /\ Len(getProductCollections(World, p)) = 1
    /\ getEffectiveBehavior(PassShop, getProductCollections(World, p)[1]) = "PUSH_TO_END"

\* C8 as stated: the next pass for such a product leaves exactly one ACTIVE
\* PUSHED_TO_END snapshot and no ACTIVE HIDDEN snapshot of the product.
C8_RuleChangeReapplied_AsStated ==
    [][\A p \in Products :
          IsPass(p) /\ C8Case(p)
          => /\ BagCardinality(ActiveRows(snapshots', p, "PUSHED_TO_END")) = 1
             /\ BagCardinality(ActiveRows(snapshots', p, "HIDDEN")) = 0]_vars

----------------------------------------------------------------------------
(* The engine functions called directly, one call after the other, on a    *)
(* catalog whose second collection is sorted by the platform.              *)

\* Most direct calls of engine functions in a run.
MaxCalls == 4

\* A direct call counts against MaxCalls and remembers the world it started in.
Call(A) ==
    /\ steps < MaxCalls
    /\ steps' = steps + 1
    /\ before' = World
    /\ A
    /\ UNCHANGED <<shop, variants, sync, tasks, webhooks, processingLock>>

CallPushProductToEnd(productId, collectionId, rej) ==
    LET r == pushProductToEnd(World, productId, collectionId, rej)
    IN  /\ SetWorld(r.w)
        /\ last' = Op("pushProductToEnd", productId, collectionId, rej, "", r.res)

CallRestoreProductPosition(productId, collectionId, rej) ==
    LET r == restoreProductPosition(World, productId, collectionId, rej)
    IN  /\ SetWorld(r.w)
        /\ last' = Op("restoreProductPosition", productId, collectionId, rej, "", r.res)

CallHideProduct(productId, rej) ==
    LET r == hideProduct(World, productId, rej)
    IN  /\ SetWorld(r.w)
        /\ last' = Op("hideProduct", productId, NullId, rej, "", r.res)

CallRestoreProductVisibility(productId, rej) ==
    LET r == restoreProductVisibility(World, productId, rej)
    IN  /\ SetWorld(r.w)
        /\ last' = Op("restoreProductVisibility", productId, NullId, rej, "", r.res)

\* The (product, collection) pairs the reorder engine is called for, and the
\* rejections tried: of the reorder of the collection, of one unpublish, of
\* one publish.
ReorderKeys == (Products \X {"c1"}) \cup {<<"p2", "c2">>}
ReorderRejects(collectionId) == {{}, {<<"reorder", collectionId>>}}
UnpublishRejects == {{}} \cup {{<<"unpublish", pub>>} : pub \in Publications}
PublishRejects == {{}, {<<"publish", "ch1">>}}

NextEngine ==
    \/ \E k \in ReorderKeys : \E rej \in ReorderRejects(k[2]) :
          Call(CallPushProductToEnd(k[1], k[2], rej))
    \/ \E k \in ReorderKeys : \E rej \in ReorderRejects(k[2]) :
          Call(CallRestoreProductPosition(k[1], k[2], rej))
    \/ \E rej \in UnpublishRejects : Call(CallHideProduct("p1", rej))
    \/ \E rej \in PublishRejects : Call(CallRestoreProductVisibility("p1", rej))
    \/ \E p \in Products :
          /\ steps < MaxCalls
          /\ Unbounded(RemoveFromCollection({p}, "c1"))

SpecEngine == InitWith("BEST_SELLING") /\ [][NextEngine]_vars

----------------------------------------------------------------------------
(* Sequences of direct calls: what the claims say of two calls in a row.   *)

\* The step is a call of op for the product and collection of the call of prev
\* that produced the current state: the two calls follow each other directly.
Follows(prev, op) ==
    /\ last.op = prev
    /\ last'.op = op
    /\ last'.productId = last.productId
    /\ last'.collectionId = last.collectionId

\* C3 as stated: the same corrective action applied twice in a row for the same
\* key, both calls succeeding, is idempotent: after the second call exactly one
\* ACTIVE snapshot exists for the key (for hideProduct: for each channel the
\* product was published on), and the second call changes neither the order of
\* the collections nor the publications.
C3_ApplyTwiceIdempotent_AsStated ==
    [][/\ Follows("pushProductToEnd", "pushProductToEnd") /\ last.success /\ last'.success
          => /\ BagCardinality(ActiveKeyRows(snapshots', last.productId, last.collectionId,
                                             "PUSHED_TO_END")) = 1
             /\ collections' = collections
             /\ published' = published
       /\ Follows("hideProduct", "hideProduct") /\ last.success /\ last'.success
          => /\ \A pub \in before.published[last.productId] :
                   BagCardinality(ActiveKeyRows(snapshots', last.productId, pub, "HIDDEN")) = 1
             /\ collections' = collections
             /\ published' = published]_vars

\* restoreProductPosition directly follows pushProductToEnd for a product of a
\* manually ordered collection, and the remote accepts the reorder both times.
C4Case ==
    /\ Follows("pushProductToEnd", "restoreProductPosition")
    /\ before.collections[last.collectionId].sortOrder = "MANUAL"
    /\ findIndex(before.collections[last.collectionId].products, last.productId) # -1
    /\ <<"reorder", last.collectionId>> \notin (last.rej \cup last'.rej)

\* No ACTIVE PUSHED_TO_END snapshot is left for the key, and the product is at
\* the index it had before the push.
C4Post ==
    /\ ActiveKeyRows(snapshots', last.productId, last.collectionId, "PUSHED_TO_END") = EmptyBag
    /\ findIndex(collections'[last.collectionId].products, last.productId)
          = findIndex(before.collections[last.collectionId].products, last.productId)

\* C4 as stated: pushProductToEnd followed by restoreProductPosition, both moves
\* accepted and nothing else changed in between, leaves no ACTIVE PUSHED_TO_END
\* snapshot for the key and the product at the index it held before the push.
C4_PushRestoreRoundTrip_AsStated ==
    [][C4Case => C4Post]_vars

\* C4, amended: the same, provided no ACTIVE PUSHED_TO_END snapshot for the key
\* existed before the push (an existing one keeps the position it recorded).
C4_PushRestoreRoundTrip ==
    [][/\ C4Case
       /\ ActiveKeyRows(before.snapshots, last.productId, last.collectionId,
                        "PUSHED_TO_END") = EmptyBag
       => C4Post]_vars

\* A restore has just undone a push: before it the product was last with an
\* ACTIVE snapshot of an earlier index; now it is at that index and the snapshot
\* is RESTORED.
C4_Witness ==
    /\ last.op = "restoreProductPosition"
    /\ last.success
    /\ last.rej = {}
    /\ LET p == last.productId
           c == last.collectionId
           old == before.collections[c].products
       IN  /\ findIndex(old, p) = Len(old) - 1
           /\ ActiveKeyRows(snapshots, p, c, "PUSHED_TO_END") = EmptyBag
           /\ \E r \in DOMAIN before.snapshots :
                 /\ SameKey(r, p, c, "PUSHED_TO_END", "ACTIVE")
                 /\ RecordedPosition(r) < Len(old) - 1
                 /\ RecordedPosition(r) > 0
                 /\ findIndex(collections[c].products, p) = RecordedPosition(r)
                 /\ BagIn([r EXCEPT !.status = "RESTORED"], snapshots)

\* restoreProductVisibility directly follows hideProduct for the product, and
\* the remote accepts every unpublish and publish.
C5Case ==
    /\ Follows("hideProduct", "restoreProductVisibility")
    /\ last.rej = {}
    /\ last'.rej = {}

\* No ACTIVE HIDDEN snapshot of the product is left, and it is published on the
\* channels it was published on before hideProduct.
C5Post ==
    /\ ActiveRows(snapshots', last.productId, "HIDDEN") = EmptyBag
    /\ published'[last.productId] = before.published[last.productId]

\* C5 as stated: hideProduct followed by restoreProductVisibility, every
\* unpublish and publish accepted, leaves no ACTIVE HIDDEN snapshot of the
\* product and the product published on the channels it was on before.
C5_HideRestoreRoundTrip_AsStated ==
    [][C5Case => C5Post]_vars

\* C5, amended: the same, provided no ACTIVE HIDDEN snapshot of the product
\* existed before hideProduct (an existing one is re-published as well).
C5_HideRestoreRoundTrip ==
    [][C5Case /\ ActiveRows(before.snapshots, last.productId, "HIDDEN") = EmptyBag
       => C5Post]_vars

\* A restore has just undone a hide: before it the product was on no channel
\* with an ACTIVE HIDDEN snapshot per channel; now it is on every channel again
\* and the snapshots are RESTORED.
C5_Witness ==
    /\ last.op = "restoreProductVisibility"
    /\ last.success
    /\ last.rej = {}
    /\ before.published[last.productId] = {}
    /\ published[last.productId] = Publications
    /\ ActiveRows(snapshots, last.productId, "HIDDEN") = EmptyBag
    /\ \A pub \in Publications :
          /\ BagIn(SnapshotRow(last.productId, pub, pub, "HIDDEN", "ACTIVE", NoPosition),
                   before.snapshots)
          /\ BagIn(SnapshotRow(last.productId, pub, pub, "HIDDEN", "RESTORED", NoPosition),
                   snapshots)

\* C9 as stated (without the recorded originalScopeOrder, which no snapshot of
\* the code has): pushProductToEnd for a product of a collection that is not
\* manually ordered, the remote accepting, switches the collection to MANUAL and
\* pushes the product to the end rather than skipping it.
C9_PushInSortedCollection_AsStated ==
    [][\A p \in Products, c \in CollectionIds :
          /\ last'.op = "pushProductToEnd"
          /\ last'.productId = p
          /\ last'.collectionId = c
          /\ last'.rej = {}
          /\ collections[c].sortOrder # "MANUAL"
          /\ findIndex(collections[c].products, p) # -1
          => /\ ~ last'.skipped
             /\ collections'[c].sortOrder = "MANUAL"
             /\ findIndex(collections'[c].products, p) = Len(collections[c].products) - 1
             /\ BagCardinality(ActiveKeyRows(snapshots', p, c, "PUSHED_TO_END")) = 1]_vars

----------------------------------------------------------------------------
(* Concurrent invocations of the engine functions (webhook handlers and a  *)
(* full sync run as separate async calls): each await of a function is one *)
(* step, and the steps of the invocations interleave.  The passes change   *)
(* the ProductSnapshot table through these four functions only.            *)

\* Most invocations started in a run.
MaxInvocations == 4

At(t, pc) == tasks[t].pc = pc

\* A step of invocation t that leaves it as task (Idle when it returned or threw).
Becomes(t, task) == tasks' = [tasks EXCEPT ![t] = task]

\* The rows other invocations hold: those found "from" for the key are now "to".
MarkRefs(ts, productId, action, scope, from, to) ==
    [t \in Tasks |->
        IF /\ ts[t].productId = productId
           /\ ts[t].action = action
           /\ scope \in DOMAIN ts[t].refs
           /\ ts[t].refs[scope] = from
        THEN [ts[t] EXCEPT !.refs[scope] = to]
        ELSE ts[t]]

\* pushProductToEnd, lines 9-51: the query of the collection and the returns
\* that follow it.
PushQuery(t, productId, collectionId) ==
    /\ At(t, "idle")
    /\ steps < MaxInvocations
    /\ steps' = steps + 1
    /\ LET collection == collections[collectionId]
           products == First(collection.products, CollectionProductsFirst)
           currentIndex == findIndex(products, productId)
           returns == \/ collection.sortOrder # "MANUAL"
                      \/ currentIndex = -1
                      \/ currentIndex = Len(products) - 1
       IN  /\ Becomes(t, IF returns THEN Idle
                         ELSE Task("push.upsert", productId, collectionId, "PUSHED_TO_END",
                                   products, <<currentIndex>>, <<>>, NoRefs))
           /\ last' = Op("push.query", productId, collectionId, {},
                         IF returns THEN "return" ELSE "", NoResult)
    /\ UNCHANGED <<shop, variants, collections, published, snapshots, activityLog, sync,
                   before, webhooks, processingLock>>

\* pushProductToEnd, lines 53-73: the upsert of the snapshot.
PushUpsert(t) ==
    /\ At(t, "push.upsert")
    /\ LET me == tasks[t]
       IN  /\ snapshots' = upsert(snapshots, SnapshotRow(me.productId, me.collectionId, NullId,
                                                        "PUSHED_TO_END", "ACTIVE", me.position))
           /\ Becomes(t, [me EXCEPT !.pc = "push.move"])
           /\ last' = Op("upsert", me.productId, me.collectionId, {},
                         IF activePushSnapshots(snapshots, me.productId, me.collectionId) # {}
                         THEN "found" ELSE "created", NoResult)
    /\ UNCHANGED <<shop, variants, collections, published, activityLog, sync, steps, before,
                   webhooks, processingLock>>

\* pushProductToEnd, lines 75-105: the reorder mutation and the return.
PushMove(t, rej) ==
    /\ At(t, "push.move")
    /\ LET me == tasks[t]
           rejected == reorderRejected(World, me.collectionId, rej)
       IN  /\ collections' =
                 IF rejected THEN collections
                 ELSE [collections EXCEPT ![me.collectionId].products =
                          collectionReorderProducts(@, me.productId, lastPosition(me.products))]
           /\ Becomes(t, Idle)
           /\ last' = Op("push.move", me.productId, me.collectionId, rej, "",
                         Result(~ rejected, "", FALSE, <<>>))
    /\ UNCHANGED <<shop, variants, published, snapshots, activityLog, sync, steps, before,
                   webhooks, processingLock>>

\* restoreProductPosition, lines 112-125: findFirst of the ACTIVE snapshot.
RestoreFind(t, productId, collectionId) ==
    /\ At(t, "idle")
    /\ steps < MaxInvocations
    /\ steps' = steps + 1
    /\ LET found == activePushSnapshots(snapshots, productId, collectionId)
       IN  /\ Becomes(t, IF found = {} THEN Idle
                         ELSE Task("restore.query", productId, collectionId, "PUSHED_TO_END",
                                   <<>>, (CHOOSE r \in found : TRUE).originalPosition, <<>>,
                                   [scope \in {collectionId} |-> "active"]))
           /\ last' = Op("restore.find", productId, collectionId, {},
                         IF found = {} THEN "return" ELSE "", NoResult)
    /\ UNCHANGED <<shop, variants, collections, published, snapshots, activityLog, sync,
                   before, webhooks, processingLock>>

\* restoreProductPosition, lines 127-147 and 160-161: the query of the collection.
RestoreQuery(t) ==
    /\ At(t, "restore.query")
    /\ LET me == tasks[t]
           products == First(collections[me.collectionId].products, CollectionProductsFirst)
       IN  /\ Becomes(t, [me EXCEPT !.products = products,
                                    !.pc = IF findIndex(products, me.productId) = -1
                                           THEN "restore.delete" ELSE "restore.move"])
           /\ last' = Op("restore.query", me.productId, me.collectionId, {}, "", NoResult)
    /\ UNCHANGED <<shop, variants, collections, published, snapshots, activityLog, sync, steps,
                   before, webhooks, processingLock>>

\* restoreProductPosition, lines 163-188: the reorder mutation.
RestoreMove(t, rej) ==
    /\ At(t, "restore.move")
    /\ LET me == tasks[t]
           rejected == reorderRejected(World, me.collectionId, rej)
       IN  /\ collections' =
                 IF rejected THEN collections
                 ELSE [collections EXCEPT ![me.collectionId].products =
                          collectionReorderProducts(@, me.productId,
                                                    targetPosition(me.position, me.products))]
           /\ Becomes(t, IF rejected THEN Idle ELSE [me EXCEPT !.pc = "restore.delete"])
           /\ last' = Op("restore.move", me.productId, me.collectionId, rej, "",
                         Result(~ rejected, "", FALSE, <<>>))
    /\ UNCHANGED <<shop, variants, published, snapshots, activityLog, sync, steps, before,
                   webhooks, processingLock>>

\* deleteMany of the RESTORED rows of a key (lines 150-152, 191-193, 353-361):
\* whoever holds such a row holds a deleted one from now on.
DeleteRestored(t, scope, next) ==
    LET me == tasks[t]
    IN  /\ snapshots' = deleteManyRestored(snapshots, me.productId, scope, me.action)
        /\ tasks' = [MarkRefs(tasks, me.productId, me.action, scope, "restored", "deleted")
                        EXCEPT ![t].pc = next]
        /\ last' = Op("deleteMany", me.productId, scope, {}, "", NoResult)

\* update({where: {id}, data: {status: "RESTORED"}}) of the row found (lines
\* 153-156, 196-199, 364-367): it throws when the row is gone or when another
\* RESTORED row has the key, and the function ends there (task Idle); else the
\* invocation goes on as task next.
UpdateRestored(t, scope, publicationId, next) ==
    LET me == tasks[t]
        row == SnapshotRow(me.productId, scope, publicationId, me.action, "ACTIVE", me.position)
        conflict == \E r \in DOMAIN snapshots :
                       SameKey(r, me.productId, scope, me.action, "RESTORED")
        ref == me.refs[scope]
        throws == ref = "deleted" \/ (ref = "active" /\ conflict)
    IN  /\ snapshots' = IF ref = "active" /\ ~ conflict
                        THEN updateRestored(snapshots, row) ELSE snapshots
        /\ tasks' = [(IF ref = "active" /\ ~ conflict
                      THEN MarkRefs(tasks, me.productId, me.action, scope, "active", "restored")
                      ELSE tasks)
                        EXCEPT ![t] = IF throws THEN Idle ELSE next]
        /\ last' = Op("update", me.productId, scope, {},
                      IF throws THEN "throws" ELSE ref, NoResult)

RestoreDelete(t) ==
    /\ At(t, "restore.delete")
    /\ DeleteRestored(t, tasks[t].collectionId, "restore.update")
    /\ UNCHANGED <<shop, variants, collections, published, activityLog, sync, steps, before,
                   webhooks, processingLock>>

RestoreUpdate(t) ==
    /\ At(t, "restore.update")
    /\ UpdateRestored(t, tasks[t].collectionId, NullId, Idle)
    /\ UNCHANGED <<shop, variants, collections, published, activityLog, sync, steps, before,
                   webhooks, processingLock>>

\* hideProduct, lines 211-239: the query of the product's publications.
HideQuery(t, productId) ==
    /\ At(t, "idle")
    /\ steps < MaxInvocations
    /\ steps' = steps + 1
    /\ LET pubs == publishedOnes(World, productId)
       IN  /\ Becomes(t, IF pubs = <<>> THEN Idle
                         ELSE Task("hide.upsert", productId, NullId, "HIDDEN", <<>>, NoPosition,
                                   pubs, NoRefs))
           /\ last' = Op("hide.query", productId, NullId, {},
                         IF pubs = <<>> THEN "return" ELSE "", NoResult)
    /\ UNCHANGED <<shop, variants, collections, published, snapshots, activityLog, sync,
                   before, webhooks, processingLock>>

\* hideProduct, lines 244-264: the upsert of the snapshot of the next publication.
HideUpsert(t) ==
    /\ At(t, "hide.upsert")
    /\ LET me == tasks[t]
           publicationId == Head(me.todo)
       IN  /\ snapshots' = upsert(snapshots, SnapshotRow(me.productId, publicationId,
                                                        publicationId, "HIDDEN", "ACTIVE",
                                                        NoPosition))
           /\ Becomes(t, [me EXCEPT !.pc = "hide.unpublish"])
           /\ last' = Op("upsert", me.productId, publicationId, {},
                         IF \E r \in DOMAIN snapshots :
                               SameKey(r, me.productId, publicationId, "HIDDEN", "ACTIVE")
                         THEN "found" ELSE "created", NoResult)
    /\ UNCHANGED <<shop, variants, collections, published, activityLog, sync, steps, before,
                   webhooks, processingLock>>

\* hideProduct, lines 266-303: the unpublish mutation, then the next publication
\* or the return.
HideUnpublish(t, rej) ==
    /\ At(t, "hide.unpublish")
    /\ LET me == tasks[t]
           publicationId == Head(me.todo)
           ok == <<"unpublish", publicationId>> \notin rej
       IN  /\ published' = IF ok THEN [published EXCEPT ![me.productId] = @ \ {publicationId}]
                           ELSE published
           /\ Becomes(t, IF Len(me.todo) = 1 THEN Idle
                         ELSE [me EXCEPT !.todo = Tail(@), !.pc = "hide.upsert"])
           /\ last' = Op("hide.unpublish", me.productId, publicationId, rej, "",
                         Result(ok, "", FALSE, <<>>))
    /\ UNCHANGED <<shop, variants, collections, snapshots, activityLog, sync, steps, before,
                   webhooks, processingLock>>

\* restoreProductVisibility, lines 310-323: findMany of the ACTIVE HIDDEN snapshots.
ShowFind(t, productId) ==
    /\ At(t, "idle")
    /\ steps < MaxInvocations
    /\ steps' = steps + 1
    /\ LET pubs == activeHiddenSnapshots(snapshots, productId)
       IN  /\ Becomes(t, IF pubs = <<>> THEN Idle
                         ELSE Task("show.publish", productId, NullId, "HIDDEN", <<>>, NoPosition,
                                   pubs, [scope \in Range(pubs) |-> "active"]))
           /\ last' = Op("show.find", productId, NullId, {},
                         IF pubs = <<>> THEN "return" ELSE "", NoResult)
    /\ UNCHANGED <<shop, variants, collections, published, snapshots, activityLog, sync,
                   before, webhooks, processingLock>>

\* restoreProductVisibility, lines 325-350: the publish mutation of the next snapshot.
ShowPublish(t, rej) ==
    /\ At(t, "show.publish")
    /\ LET me == tasks[t]
           publicationId == Head(me.todo)
           ok == <<"publish", publicationId>> \notin rej
       IN  /\ published' = IF ok THEN [published EXCEPT ![me.productId] = @ \cup {publicationId}]
                           ELSE published
           /\ Becomes(t, [me EXCEPT !.pc = "show.delete"])
           /\ last' = Op("show.publish", me.productId, publicationId, rej, "",
                         Result(ok, "", FALSE, <<>>))
    /\ UNCHANGED <<shop, variants, collections, snapshots, activityLog, sync, steps, before,
                   webhooks, processingLock>>

\* restoreProductVisibility, lines 352-361.
ShowDelete(t) ==
    /\ At(t, "show.delete")
    /\ DeleteRestored(t, Head(tasks[t].todo), "show.update")
    /\ UNCHANGED <<shop, variants, collections, published, activityLog, sync, steps, before,
                   webhooks, processingLock>>

\* restoreProductVisibility, lines 363-380: the update, then the next snapshot
\* or the return.
ShowUpdate(t) ==
    /\ At(t, "show.update")
    /\ LET me == tasks[t]
           rest == Tail(me.todo)
       IN UpdateRestored(t, Head(me.todo), Head(me.todo),
                         IF rest = <<>> THEN Idle
                         ELSE [me EXCEPT !.pc = "show.publish", !.todo = rest,
                                         !.refs = [scope \in Range(rest) |-> me.refs[scope]]])
    /\ UNCHANGED <<shop, variants, collections, published, activityLog, sync, steps, before,
                   webhooks, processingLock>>

NextInterleave ==
    \E t \in Tasks :
        \/ \E p \in SellingProducts : PushQuery(t, p, "c1")
        \/ PushUpsert(t)
        \/ \E rej \in ReorderRejects("c1") : PushMove(t, rej)
        \/ \E p \in SellingProducts : RestoreFind(t, p, "c1")
        \/ RestoreQuery(t)
        \/ \E rej \in ReorderRejects("c1") : RestoreMove(t, rej)
        \/ RestoreDelete(t)
        \/ RestoreUpdate(t)
        \/ HideQuery(t, "p1")
        \/ HideUpsert(t)
        \/ \E rej \in UnpublishRejects : HideUnpublish(t, rej)
        \/ ShowFind(t, "p1")
        \/ ShowPublish(t, {})
        \/ ShowDelete(t)
        \/ ShowUpdate(t)

SpecInterleave == Init /\ [][NextInterleave]_vars

\* C2: in every reachable state there is at most one ACTIVE snapshot per
\* (productId, scope, action), whatever engine functions ran and however their
\* steps interleaved: an upsert for a key that has an ACTIVE row adds no row.
C2_AtMostOneActive ==
    \A p \in Products, scope \in CollectionIds \cup Publications,
       action \in {"PUSHED_TO_END", "HIDDEN"} :
          BagCardinality(ActiveKeyRows(snapshots, p, scope, action)) <= 1

\* Two invocations of pushProductToEnd for the same key are both past their
\* upsert: the second upsert found the ACTIVE row of the first, and the key has
\* one ACTIVE row.
C2_Witness ==
    /\ last.op = "upsert"
    /\ last.branch = "found"
    /\ \A t \in Tasks :
          /\ tasks[t].pc = "push.move"
          /\ tasks[t].productId = last.productId
          /\ tasks[t].collectionId = last.collectionId
    /\ BagCardinality(ActiveKeyRows(snapshots, last.productId, last.collectionId,
                                    "PUSHED_TO_END")) = 1

----------------------------------------------------------------------------
(* The webhook route: handleInventoryUpdate invocations with their          *)
(* processingLock, each await one step, next to a full sync.                *)

\* Most notifications and stock changes in a run.
MaxNotifications == 4

\* The inventory items of the remote and the product of their variant: i1 and
\* i2 are the two variants of p1, i3 is the variant of p2.
InventoryItems == {"i1", "i2", "i3"}
ItemProduct(inventoryItemId) == IF inventoryItemId = "i3" THEN "p2" ELSE "p1"

\* const lockKey = `${shop}:${inventoryItemId}`, of the one shop.
LockKey(inventoryItemId) == <<"shop", inventoryItemId>>

Handles(t, webhook) == webhooks' = [webhooks EXCEPT ![t] = webhook]

\* A notification or a stock change counts against MaxNotifications.
Notified(A) ==
    /\ steps < MaxNotifications
    /\ steps' = steps + 1
    /\ A

\* handleInventoryUpdate, lines 44-56: a notification for an item whose key is
\* in processingLock is skipped; else the key is set.
WebhookReceiveUnguarded(t, inventoryItemId) ==
    /\ webhooks[t].pc = "idle"
    /\ processingLock' = processingLock \cup {LockKey(inventoryItemId)}
    /\ Handles(t, Webhook("load", inventoryItemId, NewShop, NullId, FALSE))
    /\ last' = Op("webhook.receive", NullId, NullId, {}, "locked", NoResult)
    /\ UNCHANGED <<shop, variants, collections, published, snapshots, activityLog, sync,
                   before, tasks>>

WebhookReceive(t, inventoryItemId) ==
    /\ webhooks[t].pc = "idle"
    /\ IF LockKey(inventoryItemId) \in processingLock
       THEN /\ UNCHANGED <<webhooks, processingLock>>
            /\ last' = Op("webhook.receive", NullId, NullId, {}, "duplicate", NoResult)
       ELSE /\ processingLock' = processingLock \cup {LockKey(inventoryItemId)}
            /\ Handles(t, Webhook("load", inventoryItemId, NewShop, NullId, FALSE))
            /\ last' = Op("webhook.receive", NullId, NullId, {}, "locked", NoResult)
    /\ UNCHANGED <<shop, variants, collections, published, snapshots, activityLog, sync,
                   before, tasks>>

\* Lines 60-61: getOrCreateShop, and the return of a disabled shop.
WebhookLoadShop(t) ==
    /\ webhooks[t].pc = "load"
    /\ Handles(t, [webhooks[t] EXCEPT !.shopRecord = shop,
                                      !.pc = IF shop.enabled THEN "check" ELSE "finally"])
    /\ last' = Op("webhook.load", NullId, NullId, {},
                  IF shop.enabled THEN "" ELSE "disabled", NoResult)
    /\ UNCHANGED <<shop, variants, collections, published, snapshots, activityLog, sync,
                   steps, before, tasks, processingLock>>

\* Lines 64-67: checkProductInventory resolves the item to its product and
\* evaluates the product's variants.
WebhookCheckInventory(t) ==
    /\ webhooks[t].pc = "check"
    /\ LET productId == ItemProduct(webhooks[t].inventoryItemId)
       IN  /\ Handles(t, [webhooks[t] EXCEPT
                             !.productId = productId,
                             !.isFullyOutOfStock =
                                 checkProductInventory(variants, productId).isFullyOutOfStock,
                             !.pc = "find"])
           /\ last' = Op("webhook.check", productId, NullId, {}, "", NoResult)
    /\ UNCHANGED <<shop, variants, collections, published, snapshots, activityLog, sync,
                   steps, before, tasks, processingLock>>

\* Lines 70-86: findMany of the ACTIVE snapshots, and the branch taken.
WebhookFind(t) ==
    /\ webhooks[t].pc = "find"
    /\ LET me == webhooks[t]
           act == activeSnapshots(snapshots, me.productId)
           branch == IF me.isFullyOutOfStock /\ act = {} THEN "apply"
                     ELSE IF ~ me.isFullyOutOfStock /\ act # {} THEN "restore"
                     ELSE "finally"
       IN  /\ Handles(t, [me EXCEPT !.pc = branch])
           /\ last' = Op("webhook.find", me.productId, NullId, {}, branch, NoResult)
    /\ UNCHANGED <<shop, variants, collections, published, snapshots, activityLog, sync,
                   steps, before, tasks, processingLock>>

\* Line 81: handleOutOfStock with the shop record loaded.
WebhookApply(t) ==
    /\ webhooks[t].pc = "apply"
    /\ LET me == webhooks[t]
       IN  /\ SetWorld(handleOutOfStock(World, me.shopRecord, me.productId, {}))
           /\ Handles(t, [me EXCEPT !.pc = "finally"])
           /\ last' = Op("webhook.apply", me.productId, NullId, {}, "apply", NoResult)
    /\ UNCHANGED <<shop, variants, sync, steps, before, tasks, processingLock>>

\* Line 85: handleBackInStock.
WebhookRestore(t) ==
    /\ webhooks[t].pc = "restore"
    /\ LET me == webhooks[t]
       IN  /\ SetWorld(handleBackInStock(World, me.shopRecord, me.productId, {}))
           /\ Handles(t, [me EXCEPT !.pc = "finally"])
           /\ last' = Op("webhook.restore", me.productId, NullId, {}, "restore", NoResult)
    /\ UNCHANGED <<shop, variants, sync, steps, before, tasks, processingLock>>

\* Lines 89-92: the handler has returned and its timer fires:
\* setTimeout(() => processingLock.delete(lockKey), 5000).
WebhookReleaseKeepingKey(t) ==
    /\ webhooks[t].pc = "finally"
    /\ Handles(t, NoWebhook)
    /\ last' = Op("webhook.release", webhooks[t].productId, NullId, {}, "", NoResult)
    /\ UNCHANGED <<shop, variants, collections, published, snapshots, activityLog, sync,
                   steps, before, tasks, processingLock>>

WebhookRelease(t) ==
    /\ webhooks[t].pc = "finally"
    /\ processingLock' = processingLock \ {LockKey(webhooks[t].inventoryItemId)}
    /\ Handles(t, NoWebhook)
    /\ last' = Op("webhook.release", webhooks[t].productId, NullId, {}, "", NoResult)
    /\ UNCHANGED <<shop, variants, collections, published, snapshots, activityLog, sync,
                   steps, before, tasks>>

\* Both variants of p1 sell out, or both are restocked.
StockLevels == {<<0, 0>>, <<1, 1>>}

NextLock ==
    \/ \E vs \in StockLevels : Notified(SetInventory("p1", vs))
    \/ \E t \in Tasks, i \in InventoryItems : Notified(WebhookReceive(t, i))
    \/ \E t \in Tasks : WebhookLoadShop(t)
    \/ \E t \in Tasks : WebhookCheckInventory(t)
    \/ \E t \in Tasks : WebhookFind(t)
    \/ \E t \in Tasks : WebhookApply(t)
    \/ \E t \in Tasks : WebhookRestore(t)
    \/ \E t \in Tasks : WebhookRelease(t)
    \/ SyncStart
    \/ SyncStep({})

SpecLock ==
    /\ InitCatalog("MANUAL", [p \in Products |-> IF p = "p1" THEN <<1, 1>> ELSE <<1>>],
                   [p \in Products |-> IF p = "p1" THEN Publications ELSE {}])
    /\ [][NextLock]_vars

\* Invocation t has read the product's snapshots and has not yet written: it
\* is between the reads and the writes of its reconciliation pass.
InPass(t, productId) ==
    /\ webhooks[t].pc \in {"apply", "restore"}
    /\ webhooks[t].productId = productId

\* C11 as stated: no two reconciliation passes for the same product overlap:
\* never are two notification handlers of a product (also for different
\* inventory items of it) both between their snapshot reads and their writes,
\* and no full-sync pass for a product runs while a handler is there.
C11_PassesNeverOverlap_AsStated ==
    [][\A p \in Products :
          /\ \A t1, t2 \in Tasks : t1 # t2 => ~ (InPass(t1, p) /\ InPass(t2, p))
          /\ last'.op = "sync" /\ last'.productId = p => \A t \in Tasks : ~ InPass(t, p)]_vars

----------------------------------------------------------------------------
(* Passes with a failing store: db.activityLog.create may throw during a    *)
(* pass, and a pass of the full sync may throw altogether.  The merchant    *)
(* disables and enables the app and sets the rule of c2 meanwhile; p2 is    *)
(* in both collections and published on one channel.                        *)

\* Most changes of the merchant and most thrown passes in a run.
MaxFaults == 3

Faulty(A) ==
    /\ steps < MaxFaults
    /\ steps' = steps + 1
    /\ A

\* The world of a pass during which db.activityLog.create throws, or not.
WorldWith(auditFails) == [World EXCEPT !.auditFails = auditFails]

\* handleInventoryUpdate for a notification about an inventory item of productId.
WebhookPassWith(productId, rej, auditFails) ==
    LET r == webhookReconcile(WorldWith(auditFails), shop, variants, productId, rej)
    IN  /\ SetWorld(r.w)
        /\ last' = Op("webhook", productId, NullId, rej, r.branch, NoResult)
        /\ UNCHANGED <<shop, variants, sync, steps, before, tasks, webhooks, processingLock>>

\* runFullSync's loop body for the next product; after the last one it returns.
SyncStepWith(rej, auditFails) ==
    /\ sync.running
    /\ LET productId == Head(sync.todo)
           r == syncReconcile(WorldWith(auditFails), sync.shopRecord, variants, productId, rej)
       IN  /\ SetWorld(r.w)
           /\ sync' = IF Len(sync.todo) = 1 THEN NoSync
                      ELSE [sync EXCEPT !.todo = Tail(@), !.processed = @ + 1]
           /\ last' = Op("sync", productId, NullId, rej, r.branch, NoResult)
    /\ UNCHANGED <<shop, variants, steps, before, tasks, webhooks, processingLock>>

\* runFullSync's loop body when db.productSnapshot.findMany (line 270) throws:
\* nothing catches it, the promise of runFullSync rejects and the loop is left.
SyncThrow ==
    /\ sync.running
    /\ sync' = NoSync
    /\ last' = Op("sync", Head(sync.todo), NullId, {}, "throws",
                  Result(FALSE, "", FALSE, <<>>))
    /\ UNCHANGED <<shop, variants, collections, published, snapshots, activityLog, before,
                   tasks, webhooks, processingLock>>

FaultRejects == {{}, {<<"reorder", "c1">>}}

NextFaults ==
    \/ \E e \in BOOLEAN : Faulty(UpdateSettings(e, shop.defaultBehavior, shop.applyToAll))
    \/ \E b \in {"HIDE", "PUSH_TO_END"} : Faulty(UpsertCollectionRule("c2", b))
    \/ \E vs \in {<<0>>, <<1>>} : Faulty(SetInventory("p2", vs))
    \/ \E rej \in FaultRejects, a \in BOOLEAN : WebhookPassWith("p2", rej, a)
    \/ SyncStart
    \/ \E rej \in FaultRejects, a \in BOOLEAN : SyncStepWith(rej, a)
    \/ Faulty(SyncThrow)

SpecFaults ==
    /\ InitCatalog("MANUAL", [p \in Products |-> <<1>>],
                   [p \in Products |-> IF p = "p3" THEN {} ELSE {"ch1"}])
    /\ [][NextFaults]_vars

\* C12 as stated: runFullSync continues past the failure of one product: when
\* the pass of a product fails (is rejected by the remote, or throws), every
\* later product is still evaluated: the sweep goes on with the next one.
C12_SweepContinues_AsStated ==
    [][last'.op = "sync" /\ sync.running /\ Len(sync.todo) > 1
       => sync'.running /\ sync'.todo = Tail(sync.todo)]_vars

----------------------------------------------------------------------------
(* Retries: p1 sells out and a remote mutation of its apply is rejected;    *)
(* webhooks and full syncs that the remote accepts keep coming.             *)

RetryRejects == {{}, {<<"reorder", "c1">>}, {<<"unpublish", "ch1">>}}

NextRetry ==
    \/ \E vs \in {<<0>>, <<1>>} : Edit(SetInventory("p1", vs))
    \/ \E b \in {"HIDE", "PUSH_TO_END"} : Edit(UpsertCollectionRule("c1", b))
    \/ \E rej \in RetryRejects : WebhookPass("p1", rej)
    \/ SyncStart
    \/ \E rej \in RetryRejects : SyncStep(rej)

SpecRetry == Init /\ [][NextRetry]_vars

\* The state was produced by a pass for p during which the remote rejected
\* nothing.
AcceptedPass(p) ==
    /\ last.op \in {"webhook", "sync"}
    /\ last.productId = p
    /\ last.rej = {}

\* A pass has just applied PUSH_TO_END to p in c and the remote rejected the
\* move: the ACTIVE snapshot is there and p is where it was, not last.
PushRejected(p, c) ==
    /\ last.op \in {"webhook", "sync"}
    /\ last.productId = p
    /\ last.branch \in {"apply", "reapply"}
    /\ <<"reorder", c>> \in last.rej
    /\ ActiveKeyRows(snapshots, p, c, "PUSHED_TO_END") # EmptyBag
    /\ findIndex(collections[c].products, p) # Len(collections[c].products) - 1

\* The same for HIDE and the unpublish from channel pub.
HideRejected(p, pub) ==
    /\ last.op \in {"webhook", "sync"}
    /\ last.productId = p
    /\ last.branch \in {"apply", "reapply"}
    /\ <<"unpublish", pub>> \in last.rej
    /\ ActiveKeyRows(snapshots, p, pub, "HIDDEN") # EmptyBag
    /\ pub \in published[p]

\* C13 as stated: when the remote rejected the move (or an unpublish) of an
\* apply and the product stays fully out of stock under the same behavior, the
\* next pass for the product retries the mutation: if the remote accepts what
\* that pass asks for, the product is last in the collection (unpublished from
\* the channel) after it.
C13_RejectedApplyRetried_AsStated ==
    [][/\ AcceptedPass("p1")'
       /\ isFullyOutOfStock(variants["p1"])
       => /\ PushRejected("p1", "c1") /\ getEffectiveBehavior(shop, "c1") = "PUSH_TO_END"
             => findIndex(collections'["c1"].products, "p1")
                   = Len(collections'["c1"].products) - 1
          /\ HideRejected("p1", "ch1") /\ getEffectiveBehavior(shop, "c1") = "HIDE"
             => "ch1" \notin published'["p1"]]_vars

\* What the pass of the step would leave if db.activityLog.create did not throw.
PassWithAudit(p) ==
    IF last'.op = "sync"
    THEN syncReconcile(WorldWith(FALSE), sync.shopRecord, variants, p, last'.rej).w
    ELSE webhookReconcile(WorldWith(FALSE), shop, variants, p, last'.rej).w

\* C14: a failure to append an activity record does not propagate out of
\* logActivity: a pass during which the append fails leaves the collections, the
\* publications and the snapshots exactly as the same pass with a working
\* append leaves them (it goes on with the next collection), only the records
\* are missing, and a full sync goes on with the next product.
C14_AuditFailureContained ==
    [][\A p \in Products :
          IsPass(p) /\ last'.branch # "throws"
          => /\ collections' = PassWithAudit(p).collections
             /\ published' = PassWithAudit(p).published
             /\ snapshots' = PassWithAudit(p).snapshots
             /\ activityLog' \in {activityLog, PassWithAudit(p).activityLog}
             /\ last'.op = "sync"
                   => sync' = IF Len(sync.todo) = 1 THEN NoSync
                              ELSE [sync EXCEPT !.todo = Tail(@), !.processed = @ + 1]]_vars

\* A pass has just pushed p2 to the end of both its collections while the append
\* failed: both ACTIVE snapshots are there, p2 is last in c1 and in c2, and the
\* activity log is still empty.
C14_Witness ==
    /\ last.op \in {"webhook", "sync"}
    /\ last.productId = "p2"
    /\ last.branch = "apply"
    /\ activityLog = <<>>
    /\ \A c \in CollectionIds :
          /\ BagCardinality(ActiveKeyRows(snapshots, "p2", c, "PUSHED_TO_END")) = 1
          /\ findIndex(collections[c].products, "p2") = Len(collections[c].products) - 1
    /\ collections["c1"].products = <<"p1", "p3", "p2">>

----------------------------------------------------------------------------
(* Inventory: products with no variant, with several variants, with         *)
(* negative quantities, and with more variants than one page holds.         *)

\* A product with one variant more than a page of variants(first: 100) holds:
\* the variants of the page are sold out, the one after it is in stock.
ManyVariants == [i \in 1..(VariantsFirst + 1) |-> IF i <= VariantsFirst THEN 0 ELSE 1]

InventoryLists == {<<>>, <<0>>, <<1>>, <<0, 0>>, <<0, 1>>, <<-1>>, ManyVariants}

NextInventory ==
    \/ \E p \in SellingProducts, vs \in InventoryLists : Edit(SetInventory(p, vs))
    \/ \E p \in SellingProducts : WebhookPass(p, {})
    \/ SyncStart
    \/ SyncStep({})

SpecInventory == Init /\ [][NextInventory]_vars

\* Every variant of the product is at quantity 0 or below, and there is one.
AllVariantsOut(p) ==
    Len(variants[p]) > 0 /\ \A i \in 1..Len(variants[p]) : variants[p][i] <= 0

\* C16 as stated: for every product, the webhook's evaluator and runFullSync
\* both report fully out of stock exactly when the product has a variant and
\* all its variants are at quantity <= 0; a product without variants is not
\* reported and no pass pushes or hides it.
C16_FullyOutOfStock_AsStated ==
    [][\A p \in Products :
          /\ checkProductInventory(variants, p).isFullyOutOfStock = AllVariantsOut(p)
          /\ isFullyOutOfStock(First(variants[p], VariantsFirst)) = AllVariantsOut(p)
          /\ IsPass(p) /\ variants[p] = <<>>
                => /\ last'.branch \notin {"apply", "reapply"}
                   /\ activeSnapshots(snapshots', p) \subseteq activeSnapshots(snapshots, p)]_vars

\* C17 as stated: the decision takes every variant into account: a pass for a
\* product that has a variant in stock, on whatever page, does not treat it as
\* out of stock: it does not apply a behavior to it.
C17_AllVariantPagesRead_AsStated ==
    [][\A p \in Products :
          IsPass(p) /\ (\E i \in 1..Len(variants[p]) : variants[p][i] > 0)
          => last'.branch \notin {"apply", "reapply"}]_vars

\* C18 as stated: for every product, whatever its stock, the behaviors of its
\* collections and its ACTIVE snapshots, the pass of an inventory notification
\* decides as the pass of the full sync does: for an enabled shop both leave the
\* same remote and the same snapshots, also when the behavior changed since
\* the snapshot was created.
C18_WebhookDecidesAsSync_AsStated ==
    \A p \in Products :
        shop.enabled
        => LET webhook == webhookReconcile(World, shop, variants, p, {}).w
               fullSync == syncReconcile(World, shop, variants, p, {}).w
           IN  /\ webhook.collections = fullSync.collections
               /\ webhook.published = fullSync.published
               /\ webhook.snapshots = fullSync.snapshots

\* C19 as stated: after any reconciliation pass no product has both an ACTIVE
\* PUSHED_TO_END snapshot and an ACTIVE HIDDEN snapshot, also when it is in
\* several collections whose behaviors differ.
C19_NoConflictingOverrides_AsStated ==
    [][\A p \in Products :
          IsPass(p)
          => ~ /\ ActiveRows(snapshots', p, "PUSHED_TO_END") # EmptyBag
               /\ ActiveRows(snapshots', p, "HIDDEN") # EmptyBag]_vars

\* C20 as stated: a snapshot is marked RESTORED only when the remote accepted
\* the restoration: when the remote rejects the re-publish of a channel in
\* restoreProductVisibility, or the move in restoreProductPosition, the ACTIVE
\* snapshot of that channel or collection stays ACTIVE.
C20_RestoredOnlyWhenAccepted_AsStated ==
    [][\A p \in Products :
          /\ \A pub \in Publications :
                /\ last'.op = "restoreProductVisibility"
                /\ last'.productId = p
                /\ <<"publish", pub>> \in last'.rej
                /\ ActiveKeyRows(snapshots, p, pub, "HIDDEN") # EmptyBag
                => ActiveKeyRows(snapshots', p, pub, "HIDDEN")
                      = ActiveKeyRows(snapshots, p, pub, "HIDDEN")
          /\ \A c \in CollectionIds :
                /\ last'.op = "restoreProductPosition"
                /\ last'.productId = p
                /\ last'.collectionId = c
                /\ <<"reorder", c>> \in last'.rej
                /\ findIndex(collections[c].products, p) # -1
                /\ ActiveKeyRows(snapshots, p, c, "PUSHED_TO_END") # EmptyBag
                => ActiveKeyRows(snapshots', p, c, "PUSHED_TO_END")
                      = ActiveKeyRows(snapshots, p, c, "PUSHED_TO_END")]_vars

----------------------------------------------------------------------------
(* Every reconciliation operation, each loading the shop row as its code   *)
(* does, next to the merchant's changes of the settings and of the stock:  *)
(* p1 is published on both channels and p2 on one.                        *)

\* getOrCreateShop for a domain whose Shop row exists: db.shop.upsert with
\* update: {} writes nothing and returns the row with its collectionRules.
getOrCreateShopResetting(row) == NewShop

getOrCreateShop(row) == row

\* handleInventoryUpdate, the shop row loaded by getOrCreateShop.
ShopWebhookPass(productId, rej) ==
    LET shopRecord == getOrCreateShop(shop)
        r == webhookReconcile(World, shopRecord, variants, productId, rej)
    IN  /\ shop' = shopRecord
        /\ SetWorld(r.w)
        /\ last' = Op("webhook", productId, NullId, rej, r.branch, NoResult)
        /\ UNCHANGED <<variants, sync, steps, before, tasks, webhooks, processingLock>>

\* runFullSync up to its loop, the shop row loaded by getOrCreateShop.
ShopSyncStart ==
    LET shopRecord == getOrCreateShop(shop)
    IN  /\ ~ sync.running
        /\ shop' = shopRecord
        /\ sync' = IF shopRecord.enabled
                   THEN [running |-> TRUE, shopRecord |-> shopRecord, todo |-> ProductList,
                         processed |-> 0]
                   ELSE NoSync
        /\ last' = Op("syncStart", NullId, NullId, {},
                      IF shopRecord.enabled THEN "" ELSE "disabled", NoResult)
        /\ UNCHANGED <<variants, collections, published, snapshots, activityLog, steps,
                       before, tasks, webhooks, processingLock>>

\* handleOutOfStock(admin, shopRecord, productId, productTitle) with the shop
\* record its caller holds.
CallHandleOutOfStock(productId, rej) ==
    /\ SetWorld(handleOutOfStock(World, shop, productId, rej))
    /\ last' = Op("handleOutOfStock", productId, NullId, rej, "", NoResult)
    /\ UNCHANGED <<shop, variants, sync, steps, before, tasks, webhooks, processingLock>>

\* handleBackInStock(admin, shopRecord, productId, productTitle)
CallHandleBackInStock(productId, rej) ==
    /\ SetWorld(handleBackInStock(World, shop, productId, rej))
    /\ last' = Op("handleBackInStock", productId, NullId, rej, "", NoResult)
    /\ UNCHANGED <<shop, variants, sync, steps, before, tasks, webhooks, processingLock>>

\* restoreAllHidden's findMany of the shop's ACTIVE HIDDEN rows, grouped by
\* productId: the keys of byProduct.
hiddenProducts(snaps) ==
    SelectSeq(ProductList,
              LAMBDA p : \E r \in DOMAIN snaps : /\ r.productId = p
                                                  /\ r.action = "HIDDEN"
                                                  /\ r.status = "ACTIVE")

\* The body of restoreAllHidden's for loop over byProduct.
RECURSIVE restoreAllLoop(_, _, _, _)
restoreAllLoop(w, products, rej, restored) ==
    IF products = <<>> THEN [w |-> w, restored |-> restored]
    ELSE LET productId == Head(products)
             result == restoreProductVisibility(w, productId, rej)
             logged == IF Len(result.res.publications) > 0
                       THEN logActivity(result.w, productId, "RESTORED_VISIBILITY",
                                        <<"Re-published to channel(s)">>)
                       ELSE result.w
         IN restoreAllLoop(logged, Tail(products), rej, restored + 1)

\* restoreAllHidden returning the number of snapshot rows it found.
restoreAllHiddenCountingRows(w, rej) ==
    LET done == restoreAllLoop(w, hiddenProducts(w.snapshots), rej, 0)
    IN [w |-> done.w,
        synced |-> BagCardinality(SubBagOf(w.snapshots,
                      {r \in DOMAIN w.snapshots : r.action = "HIDDEN" /\ r.status = "ACTIVE"})),
        message |-> "Restored hidden products"]

\* restoreAllHidden: {synced, message}, the message without the count in it.
restoreAllHidden(w, rej) ==
    IF hiddenProducts(w.snapshots) = <<>>
    THEN [w |-> w, synced |-> 0, message |-> "No hidden products to restore"]
    ELSE LET done == restoreAllLoop(w, hiddenProducts(w.snapshots), rej, 0)
         IN [w |-> done.w, synced |-> done.restored, message |-> "Restored hidden products"]

\* A call of restoreAllHidden, made while the log is within MaxLog; what it
\* returned is recorded with the call.
CallRestoreAllHidden(rej) ==
    LET shopRecord == getOrCreateShop(shop)
        r == restoreAllHidden(World, rej)
    IN  /\ Len(activityLog) <= MaxLog
        /\ shop' = shopRecord
        /\ before' = World
        /\ collections' = r.w.collections
        /\ published' = r.w.published
        /\ snapshots' = r.w.snapshots
        /\ activityLog' = r.w.activityLog
        /\ last' = Op("restoreAllHidden", NullId, NullId, rej, "", NoResult)
                      @@ [synced |-> r.synced, message |-> r.message]
        /\ UNCHANGED <<variants, sync, steps, tasks, webhooks, processingLock>>

NextReconcile ==
    \/ \E b \in {"HIDE", "PUSH_TO_END"} : Edit(UpdateSettings(shop.enabled, b, shop.applyToAll))
    \/ Edit(UpsertCollectionRule("c2", "HIDE"))
    \/ \E p \in SellingProducts : Edit(SetInventory(p, <<0>>))
    \/ \E p \in SellingProducts : ShopWebhookPass(p, {})
    \/ ShopSyncStart
    \/ SyncStep({})
    \/ \E rej \in {{}, {<<"unpublish", "ch1">>}} : CallHandleOutOfStock("p1", rej)
    \/ CallHandleBackInStock("p1", {})
    \/ \E rej \in PublishRejects : CallRestoreAllHidden(rej)

SpecReconcile ==
    /\ InitCatalog("MANUAL", [p \in Products |-> <<1>>],
                   [p \in Products |-> IF p = "p1" THEN Publications
                                       ELSE IF p = "p2" THEN {"ch1"} ELSE {}])
    /\ [][NextReconcile]_vars

ReconcileOps ==
    {"webhook", "syncStart", "sync", "handleOutOfStock", "handleBackInStock", "restoreAllHidden"}

\* C21: no reconciliation operation (runFullSync, the webhook pass,
\* handleOutOfStock, handleBackInStock, restoreAllHidden) changes the enabled,
\* defaultBehavior or applyToAll of the shop or any of its collection rules.
C21_EngineLeavesSettings ==
    [][last'.op \in ReconcileOps
       => /\ shop'.enabled = shop.enabled
          /\ shop'.defaultBehavior = shop.defaultBehavior
          /\ shop'.applyToAll = shop.applyToAll
          /\ shop'.collectionRules = shop.collectionRules]_vars

\* A reconciliation operation has just acted (it left ACTIVE snapshots) for a
\* shop whose settings and rules the merchant has changed.
C21_Witness ==
    /\ last.op \in ReconcileOps
    /\ shop.defaultBehavior = "HIDE"
    /\ shop.collectionRules # {}
    /\ \E r \in DOMAIN snapshots : r.status = "ACTIVE"

\* The ACTIVE HIDDEN rows and the PUSHED_TO_END rows of the shop.
ActiveHiddenRows(snaps) ==
    SubBagOf(snaps, {r \in DOMAIN snaps : r.action = "HIDDEN" /\ r.status = "ACTIVE"})

PushedRows(snaps) ==
    SubBagOf(snaps, {r \in DOMAIN snaps : r.action = "PUSHED_TO_END"})

\* C22: when restoreAllHidden completes and the remote accepted every publish,
\* the shop has no ACTIVE HIDDEN snapshot, its PUSHED_TO_END snapshots are as
\* they were, and the count returned is the number of distinct products that
\* had an ACTIVE HIDDEN snapshot at the start (0 with the message "No hidden
\* products to restore" when there were none).
C22_RestoreAllHidden ==
    [][last'.op = "restoreAllHidden" /\ last'.rej = {}
       => /\ ActiveHiddenRows(snapshots') = EmptyBag
          /\ PushedRows(snapshots') = PushedRows(snapshots)
          /\ last'.synced =
                Cardinality({p \in Products : ActiveRows(snapshots, p, "HIDDEN") # EmptyBag})
          /\ ActiveHiddenRows(snapshots) = EmptyBag
                => last'.synced = 0 /\ last'.message = "No hidden products to restore"]_vars

\* restoreAllHidden has just restored two products, one of them hidden on two
\* channels, while an ACTIVE PUSHED_TO_END snapshot existed, which is still there.
C22_Witness ==
    /\ last.op = "restoreAllHidden"
    /\ last.rej = {}
    /\ last.synced = 2
    /\ BagCardinality(ActiveHiddenRows(before.snapshots)) = 3
    /\ ActiveHiddenRows(snapshots) = EmptyBag
    /\ published["p1"] = Publications
    /\ \E r \in DOMAIN snapshots : r.action = "PUSHED_TO_END" /\ r.status = "ACTIVE"

----------------------------------------------------------------------------
(* runFullSync page by page: the remote lists the catalog in pages of at   *)
(* most 50 products, and catalogs of none, one, two and three pages are    *)
(* swept.  Products beyond p3 are in stock, in no collection, unpublished. *)

\* products(first: 50, after: $cursor)
ProductsFirst == 50

\* The sizes of the catalogs swept.
CatalogSizes == {0, 3, ProductsFirst, ProductsFirst + 1, 2 * ProductsFirst + 1}

\* The remote's listing of a catalog of n products: p1, p2, p3, then "4", "5", ...
Catalog(n) == [i \in 1..n |-> IF i <= Len(ProductList) THEN ProductList[i] ELSE ToString(i)]

\* The listing of the catalog whose products have the variants vs.
productsListing(vs) == Catalog(Cardinality(DOMAIN vs))

\* The remote's answer to the products query: the nodes after the cursor (the
\* number of products before it, 0 for null) and pageInfo.
productsPageIgnoringCursor(listing, cursor) ==
    [nodes |-> First(listing, ProductsFirst),
     hasNextPage |-> ProductsFirst < Len(listing),
     endCursor |-> Min(ProductsFirst, Len(listing))]

productsPage(listing, cursor) ==
    LET nodes == SubSeq(listing, cursor + 1, Min(cursor + ProductsFirst, Len(listing)))
    IN [nodes |-> nodes,
        hasNextPage |-> cursor + ProductsFirst < Len(listing),
        endCursor |-> cursor + Len(nodes)]

\* runFullSync before its while loop: cursor = null, hasNext = true,
\* processed = 0; evaluated is the history of the products evaluated, in order,
\* and pages the number of pages fetched.
PagedSyncStart ==
    LET shopRecord == getOrCreateShop(shop)
    IN  /\ ~ sync.running
        /\ shop' = shopRecord
        /\ sync' = IF shopRecord.enabled
                   THEN [running |-> TRUE, shopRecord |-> shopRecord, todo |-> <<>>,
                         processed |-> 0, pc |-> "while", cursor |-> 0, hasNext |-> TRUE,
                         pageInfo |-> [hasNextPage |-> FALSE, endCursor |-> 0],
                         evaluated |-> <<>>, pages |-> 0]
                   ELSE NoSync
        /\ last' = Op("syncStart", NullId, NullId, {},
                      IF shopRecord.enabled THEN "" ELSE "disabled", NoResult)
                      @@ [synced |-> 0, message |-> "App is disabled"]
        /\ UNCHANGED <<variants, collections, published, snapshots, activityLog, steps,
                       before, tasks, webhooks, processingLock>>

\* while (hasNext): the products query and its connection.
PagedSyncFetch ==
    /\ sync.running
    /\ sync.pc = "while"
    /\ sync.hasNext
    /\ LET connection == productsPage(productsListing(variants), sync.cursor)
       IN sync' = [sync EXCEPT !.pc = "for", !.todo = connection.nodes,
                               !.pageInfo = [hasNextPage |-> connection.hasNextPage,
                                             endCursor |-> connection.endCursor],
                               !.pages = @ + 1]
    /\ last' = Op("syncFetch", NullId, NullId, {}, "", NoResult)
    /\ UNCHANGED <<shop, variants, collections, published, snapshots, activityLog, steps,
                   before, tasks, webhooks, processingLock>>

\* The response carries no data.products: if (!connection) break.
PagedSyncBreak ==
    /\ sync.running
    /\ sync.pc = "while"
    /\ sync.hasNext
    /\ sync' = [sync EXCEPT !.pc = "return"]
    /\ last' = Op("syncFetch", NullId, NullId, {}, "break", NoResult)
    /\ UNCHANGED <<shop, variants, collections, published, snapshots, activityLog, steps,
                   before, tasks, webhooks, processingLock>>

\* The body of the for loop over connection.nodes, and processed++.
PagedSyncEvaluate(rej) ==
    /\ sync.running
    /\ sync.pc = "for"
    /\ sync.todo # <<>>
    /\ LET productId == Head(sync.todo)
           r == syncReconcile(World, sync.shopRecord, variants, productId, rej)
       IN  /\ SetWorld(r.w)
           /\ sync' = [sync EXCEPT !.todo = Tail(@), !.processed = @ + 1,
                                   !.evaluated = Append(@, productId)]
           /\ last' = Op("sync", productId, NullId, Effective(r.w, rej), r.branch, NoResult)
    /\ UNCHANGED <<shop, variants, steps, before, tasks, webhooks, processingLock>>

\* After the for loop: hasNext = pageInfo.hasNextPage, cursor = pageInfo.endCursor.
PagedSyncPageEnd ==
    /\ sync.running
    /\ sync.pc = "for"
    /\ sync.todo = <<>>
    /\ sync' = [sync EXCEPT !.hasNext = sync.pageInfo.hasNextPage,
                            !.cursor = sync.pageInfo.endCursor,
                            !.pc = IF sync.pageInfo.hasNextPage THEN "while" ELSE "return"]
    /\ last' = Op("syncPageEnd", NullId, NullId, {}, "", NoResult)
    /\ UNCHANGED <<shop, variants, collections, published, snapshots, activityLog, steps,
                   before, tasks, webhooks, processingLock>>

\* return {synced: processed, message}; the history of the sweep is recorded
\* with what it returned.
PagedSyncReturn ==
    /\ sync.running
    /\ sync.pc = "return"
    /\ sync' = NoSync
    /\ last' = Op("syncReturn", NullId, NullId, {},
                  IF sync.hasNext THEN "break" ELSE "", NoResult)
                  @@ [synced |-> sync.processed, evaluated |-> sync.evaluated]
    /\ UNCHANGED <<shop, variants, collections, published, snapshots, activityLog, steps,
                   before, tasks, webhooks, processingLock>>

NextPages ==
    \/ /\ "p1" \in DOMAIN variants
       /\ \E vs \in {<<0>>, <<1>>} : Edit(SetInventory("p1", vs))
    \/ PagedSyncStart
    \/ PagedSyncFetch
    \/ PagedSyncBreak
    \/ \E rej \in {{}, {<<"reorder", "c1">>}} : PagedSyncEvaluate(rej)
    \/ PagedSyncPageEnd
    \/ PagedSyncReturn

SpecPages ==
    /\ \E n \in CatalogSizes :
          InitCatalog("MANUAL", [p \in Range(Catalog(n)) |-> <<1>>],
                      [p \in Products |-> IF p = "p1" THEN Publications ELSE {}])
    /\ [][NextPages]_vars

\* The pages a sweep of a listing fetches: one at least, then one per 50 products.
PagesOf(listing) ==
    IF Len(listing) = 0 THEN 1 ELSE (Len(listing) + ProductsFirst - 1) \div ProductsFirst

\* How far a running sweep has come: every step of it makes this larger.
Progress(s) ==
    2 * s.pages + Len(s.evaluated) - (IF s.pc = "for" THEN 1 ELSE 0)
    + (IF s.pc = "return" THEN 1 ELSE 0)

\* C23: for a finite catalog whose pages are all listed, runFullSync
\* terminates (every step of the sweep takes it further, and it cannot go
\* further than the catalog's products and pages), evaluates every listed
\* product exactly once in listing order, and returns the number of products
\* listed as its processed count.
C23_FullSyncTerminates ==
    [][/\ sync.running /\ sync'.running /\ last'.op \in {"syncFetch", "sync", "syncPageEnd"}
             => Progress(sync') > Progress(sync)
       /\ sync'.running
             => Progress(sync') <= 2 * PagesOf(productsListing(variants))
                                      + Len(productsListing(variants)) + 1
       /\ last'.op = "syncReturn" /\ last'.branch # "break"
             => /\ last'.evaluated = productsListing(variants)
                /\ last'.synced = Len(productsListing(variants))]_vars

\* A sweep of a catalog of three pages has returned: it fetched the three
\* pages and evaluated the 101 products, p1 being out of stock.
C23_Witness ==
    /\ last.op = "syncReturn"
    /\ last.branch # "break"
    /\ last.synced = 2 * ProductsFirst + 1
    /\ Len(last.evaluated) = 2 * ProductsFirst + 1
    /\ last.evaluated[ProductsFirst + 1] = ToString(ProductsFirst + 1)
    /\ variants["p1"] = <<0>>
    /\ ActiveRows(snapshots, "p1", "PUSHED_TO_END") # EmptyBag

----------------------------------------------------------------------------
(* Single calls of the engine functions (SpecEngine).                      *)

\* C24 as stated: pushProductToEnd for a product that is already at the last
\* index of its manually ordered collection succeeds without a remote move and
\* still leaves an ACTIVE PUSHED_TO_END snapshot for the key.
C24_PushAlreadyLast_AsStated ==
    [][\A p \in Products, c \in CollectionIds :
          /\ last'.op = "pushProductToEnd"
          /\ last'.productId = p
          /\ last'.collectionId = c
          /\ collections[c].sortOrder = "MANUAL"
          /\ Len(collections[c].products) > 0
          /\ findIndex(collections[c].products, p) = Len(collections[c].products) - 1
          => /\ last'.success
             /\ collections' = collections
             /\ BagCardinality(ActiveKeyRows(snapshots', p, c, "PUSHED_TO_END")) = 1]_vars

\* C25 as stated: restoreProductPosition for a key that has no ACTIVE
\* PUSHED_TO_END snapshot is a no-op that reports success: no remote mutation,
\* no snapshot changed, success = true.
C25_RestoreWithoutSnapshot_AsStated ==
    [][\A p \in Products, c \in CollectionIds :
          /\ last'.op = "restoreProductPosition"
          /\ last'.productId = p
          /\ last'.collectionId = c
          /\ ActiveKeyRows(snapshots, p, c, "PUSHED_TO_END") = EmptyBag
          => /\ collections' = collections
             /\ published' = published
             /\ snapshots' = snapshots
             /\ last'.success]_vars

\* The RESTORED PUSHED_TO_END rows of a key.
RestoredKeyRows(snaps, productId, collectionId) ==
    SubBagOf(snaps, {r \in DOMAIN snaps :
                        SameKey(r, productId, collectionId, "PUSHED_TO_END", "RESTORED")})

\* The rows of the table that are not PUSHED_TO_END rows of the key.
OtherRows(snaps, productId, collectionId) ==
    SubBagOf(snaps, {r \in DOMAIN snaps :
                        \/ r.productId # productId
                        \/ r.collectionId # collectionId
                        \/ r.action # "PUSHED_TO_END"})

\* C26: when restoreProductPosition finds the product no longer in the
\* collection, it issues no reorder (the collections stay as they are, also
\* when the remote would reject a reorder), marks the ACTIVE snapshot RESTORED
\* after deleting any older RESTORED row of the key (one RESTORED row and no
\* ACTIVE row of the key are left, the other rows untouched), and returns success.
C26_RestoreWhenProductGone ==
    [][\A p \in Products, c \in CollectionIds :
          /\ last'.op = "restoreProductPosition"
          /\ last'.productId = p
          /\ last'.collectionId = c
          /\ ActiveKeyRows(snapshots, p, c, "PUSHED_TO_END") # EmptyBag
          /\ findIndex(collections[c].products, p) = -1
          => /\ collections' = collections
             /\ published' = published
             /\ last'.success
             /\ ActiveKeyRows(snapshots', p, c, "PUSHED_TO_END") = EmptyBag
             /\ BagCardinality(RestoredKeyRows(snapshots', p, c)) = 1
             /\ \A r \in DOMAIN ActiveKeyRows(snapshots, p, c, "PUSHED_TO_END") :
                   BagIn([r EXCEPT !.status = "RESTORED"], snapshots')
             /\ OtherRows(snapshots', p, c) = OtherRows(snapshots, p, c)]_vars

\* restoreProductPosition has just cleared the ACTIVE snapshot of a product that
\* had been taken out of the collection, the remote set to reject a reorder,
\* while an older RESTORED row of the key existed.
C26_Witness ==
    /\ last.op = "restoreProductPosition"
    /\ last.success
    /\ <<"reorder", last.collectionId>> \in last.rej
    /\ findIndex(collections[last.collectionId].products, last.productId) = -1
    /\ ActiveKeyRows(before.snapshots, last.productId, last.collectionId, "PUSHED_TO_END")
          # EmptyBag
    /\ RestoredKeyRows(before.snapshots, last.productId, last.collectionId) # EmptyBag
    /\ ActiveKeyRows(snapshots, last.productId, last.collectionId, "PUSHED_TO_END") = EmptyBag
    /\ BagCardinality(RestoredKeyRows(snapshots, last.productId, last.collectionId)) = 1

\* C27: the index restoreProductPosition asks for is min(originalPosition,
\* currentSize - 1), currentSize being the size of the collection when it
\* restores: it lies within 0..currentSize - 1 also when the collection shrank
\* since the push, and an accepted move leaves the product at that index.
C27_RestoreIndexClamped ==
    [][\A p \in Products, c \in CollectionIds :
          /\ last'.op = "restoreProductPosition"
          /\ last'.productId = p
          /\ last'.collectionId = c
          /\ findIndex(collections[c].products, p) # -1
          => \A r \in DOMAIN ActiveKeyRows(snapshots, p, c, "PUSHED_TO_END") :
                LET currentSize == Len(collections[c].products)
                    requested == targetPosition(r.originalPosition, collections[c].products)
                IN  /\ requested = Min(RecordedPosition(r), currentSize - 1)
                    /\ requested \in 0..(currentSize - 1)
                    /\ last'.success
                          => findIndex(collections'[c].products, p) = requested]_vars

\* restoreProductPosition has just restored a product in a collection that
\* shrank below the recorded position: only the product is left in it, the
\* snapshot had recorded index 1 and the move to index 0 was accepted.
C27_Witness ==
    /\ last.op = "restoreProductPosition"
    /\ last.success
    /\ LET p == last.productId
           c == last.collectionId
       IN  /\ before.collections[c].products = <<p>>
           /\ collections[c].products = <<p>>
           /\ ActiveKeyRows(snapshots, p, c, "PUSHED_TO_END") = EmptyBag
           /\ \E r \in DOMAIN ActiveKeyRows(before.snapshots, p, c, "PUSHED_TO_END") :
                 RecordedPosition(r) = 1

----------------------------------------------------------------------------
(* The order of the writes within an apply (SpecInterleave).               *)

\* The snapshot rows of a key, whatever their status.
KeyRows(snaps, productId, scope, action) ==
    SubBagOf(snaps, {r \in DOMAIN snaps : /\ r.productId = productId
                                           /\ r.collectionId = scope
                                           /\ r.action = action})

\* C28: for apply the snapshot write precedes the remote mutation: whenever
\* pushProductToEnd issues its reorder move, or hideProduct an unpublish, a
\* snapshot of the key exists already; and when the remote rejects the mutation
\* the step reports failure and rolls no snapshot back.
C28_SnapshotBeforeMutation ==
    [][/\ last'.op = "push.move"
          => /\ KeyRows(snapshots, last'.productId, last'.collectionId, "PUSHED_TO_END")
                   # EmptyBag
             /\ <<"reorder", last'.collectionId>> \in last'.rej
                   => ~ last'.success /\ snapshots' = snapshots
       /\ last'.op = "hide.unpublish"
          => /\ KeyRows(snapshots, last'.productId, last'.collectionId, "HIDDEN") # EmptyBag
             /\ <<"unpublish", last'.collectionId>> \in last'.rej
                   => ~ last'.success /\ snapshots' = snapshots]_vars

\* The remote has just rejected the reorder move of pushProductToEnd: the call
\* failed, the product is where it was and the key has its ACTIVE snapshot.
C28_Witness ==
    /\ last.op = "push.move"
    /\ ~ last.success
    /\ <<"reorder", last.collectionId>> \in last.rej
    /\ collections = before.collections
    /\ BagCardinality(ActiveKeyRows(snapshots, last.productId, last.collectionId,
                                    "PUSHED_TO_END")) = 1

----------------------------------------------------------------------------
(* hideProduct called directly (SpecEngine).                               *)

\* C29: hideProduct for a product that is published on no channel succeeds as
\* a no-op: it creates no snapshot and issues no unpublish (nothing changes,
\* also when the remote would reject an unpublish).
C29_HideUnpublishedProduct ==
    [][\A p \in Products :
          /\ last'.op = "hideProduct"
          /\ last'.productId = p
          /\ published[p] = {}
          => /\ last'.success
             /\ snapshots' = snapshots
             /\ published' = published
             /\ collections' = collections]_vars

\* hideProduct has just returned for a product that was on no channel and had
\* no ACTIVE HIDDEN snapshot for one of the channels, the remote set to reject
\* an unpublish: it succeeded and there is still no such snapshot.
C29_Witness ==
    /\ last.op = "hideProduct"
    /\ last.success
    /\ last.rej # {}
    /\ before.published[last.productId] = {}
    /\ \E pub \in Publications :
          /\ ActiveKeyRows(before.snapshots, last.productId, pub, "HIDDEN") = EmptyBag
          /\ ActiveKeyRows(snapshots, last.productId, pub, "HIDDEN") = EmptyBag
    /\ snapshots = before.snapshots
    /\ published = before.published

\* C30: hideProduct goes through every channel the product is published on,
\* creating the channel's ACTIVE HIDDEN snapshot and unpublishing, and does not
\* stop at a channel whose unpublish is rejected: afterwards every such channel
\* has one ACTIVE HIDDEN snapshot and the product is off exactly the channels
\* whose unpublish was accepted; it reports one result per channel, and its
\* success is true exactly when no channel's unpublish was rejected.
C30_HideEveryChannel ==
    [][\A p \in Products :
          /\ last'.op = "hideProduct"
          /\ last'.productId = p
          /\ published[p] # {}
          => LET rejected == {pub \in published[p] : <<"unpublish", pub>> \in last'.rej}
                 results == hideProduct(World, p, last'.rej).res.publications
             IN  /\ \A pub \in published[p] :
                       BagCardinality(ActiveKeyRows(snapshots', p, pub, "HIDDEN")) = 1
                 /\ published'[p] = rejected
                 /\ Len(results) = Cardinality(published[p])
                 /\ \A pub \in published[p] :
                       \E i \in 1..Len(results) :
                          /\ results[i].publicationId = pub
                          /\ results[i].success <=> pub \notin rejected
                 /\ last'.success <=> rejected = {}]_vars

\* hideProduct has just hidden a product that was on two channels, the unpublish
\* from the first one rejected: it failed, both channels have their ACTIVE
\* HIDDEN snapshot and the product is off the second channel only.
C30_Witness ==
    /\ last.op = "hideProduct"
    /\ ~ last.success
    /\ last.rej = {<<"unpublish", "ch1">>}
    /\ before.published[last.productId] = {"ch1", "ch2"}
    /\ published[last.productId] = {"ch1"}
    /\ \A pub \in {"ch1", "ch2"} :
          BagCardinality(ActiveKeyRows(snapshots, last.productId, pub, "HIDDEN")) = 1

----------------------------------------------------------------------------
(* handleOutOfStock for p2, which is in both collections and published on  *)
(* both channels, under every pair of rules the merchant can set for them. *)

ScanRejects == {{}, {<<"reorder", "c1">>}, {<<"unpublish", "ch1">>}}

NextScan ==
    \/ \E c \in CollectionIds, b \in Behaviors : Edit(UpsertCollectionRule(c, b))
    \/ \E rej \in ScanRejects : CallHandleOutOfStock("p2", rej)
    \/ \E rej \in PublishRejects : CallHandleBackInStock("p2", rej)

SpecScan ==
    /\ InitCatalog("MANUAL", [p \in Products |-> <<1>>],
                   [p \in Products |-> IF p = "p2" THEN Publications ELSE {}])
    /\ [][NextScan]_vars

\* The activity records of the step that are about collection c.
AppendedAbout(c) ==
    SelectSeq(Appended, LAMBDA rec : Len(rec.detail) = 2 /\ rec.detail[2] = c)

\* The activity records of the step that tell of a hide or of its failure.
AppendedHide ==
    SelectSeq(Appended, LAMBDA rec : rec.detail \in {<<"Hidden from storefront">>,
                                                     <<"Failed to hide">>})

\* Collection c is at index i of the scan of p's collections under the rules
\* of the shop, and no collection before it resolves to HIDE: the scan gets to it.
ScanReaches(p, i) ==
    LET colls == getProductCollections(World, p)
    IN  /\ i \in 1..Len(colls)
        /\ \A j \in 1..(i - 1) : getEffectiveBehavior(shop, colls[j]) # "HIDE"

\* C31: in handleOutOfStock the first collection (in listing order) that
\* resolves to HIDE has the product hidden once and ends the scan: no later
\* collection is processed (no move, no snapshot, no record about it), while
\* the collections before it were processed with their own behavior (one
\* record each).
C31_HideEndsScan ==
    [][\A p \in Products :
          /\ last'.op = "handleOutOfStock"
          /\ last'.productId = p
          => LET colls == getProductCollections(World, p)
             IN \A i \in 1..Len(colls) :
                   ScanReaches(p, i) /\ getEffectiveBehavior(shop, colls[i]) = "HIDE"
                   => /\ Len(AppendedHide) = 1
                      /\ published'[p] =
                            {pub \in published[p] : <<"unpublish", pub>> \in last'.rej}
                      /\ \A pub \in published[p] :
                            ActiveKeyRows(snapshots', p, pub, "HIDDEN") # EmptyBag
                      /\ \A j \in (i + 1)..Len(colls) :
                            /\ collections'[colls[j]] = collections[colls[j]]
                            /\ KeyRows(snapshots', p, colls[j], "PUSHED_TO_END")
                                  = KeyRows(snapshots, p, colls[j], "PUSHED_TO_END")
                            /\ AppendedAbout(colls[j]) = <<>>
                      /\ \A j \in 1..(i - 1) : Len(AppendedAbout(colls[j])) = 1]_vars

\* handleOutOfStock has just hidden p2 for its first collection, c1, while the
\* second one resolves to PUSH_TO_END: p2 is off every channel and is still
\* first in c2, with no snapshot and no record for c2.
C31_Witness ==
    /\ last.op = "handleOutOfStock"
    /\ last.productId = "p2"
    /\ getEffectiveBehavior(shop, "c1") = "HIDE"
    /\ getEffectiveBehavior(shop, "c2") = "PUSH_TO_END"
    /\ published["p2"] = {}
    /\ collections["c2"].products = <<"p2", "p3">>
    /\ KeyRows(snapshots, "p2", "c2", "PUSHED_TO_END") = EmptyBag
    /\ BagCardinality(ActiveRows(snapshots, "p2", "HIDDEN")) = 2
    /\ activityLog = <<[productId |-> "p2", action |-> "HIDDEN",
                        detail |-> <<"Hidden from storefront">>]>>

\* C38: for a collection that resolves to EXCLUDE, handleOutOfStock issues no
\* remote mutation and creates no snapshot for it: its only effect is one
\* SKIPPED activity record, and the scan goes on with the next collection, which
\* is processed with its own behavior.
C38_ExcludedCollectionSkipped ==
    [][\A p \in Products :
          /\ last'.op = "handleOutOfStock"
          /\ last'.productId = p
          => LET colls == getProductCollections(World, p)
             IN \A i \in 1..Len(colls) :
                   ScanReaches(p, i) /\ getEffectiveBehavior(shop, colls[i]) = "EXCLUDE"
                   => /\ collections'[colls[i]] = collections[colls[i]]
                      /\ KeyRows(snapshots', p, colls[i], "PUSHED_TO_END")
                            = KeyRows(snapshots, p, colls[i], "PUSHED_TO_END")
                      /\ AppendedAbout(colls[i])
                            = <<[productId |-> p, action |-> "SKIPPED",
                                 detail |-> <<"Excluded collection", colls[i]>>]>>
                      /\ i < Len(colls) /\ getEffectiveBehavior(shop, colls[i + 1]) = "HIDE"
                            => Len(AppendedHide) = 1
                      /\ i < Len(colls)
                         /\ getEffectiveBehavior(shop, colls[i + 1]) \in {"PUSH_TO_END", "EXCLUDE"}
                            => Len(AppendedAbout(colls[i + 1])) = 1]_vars

\* handleOutOfStock has just skipped the excluded c1, where p2 stays second
\* without a snapshot, and pushed p2 to the end of c2.
C38_Witness ==
    /\ last.op = "handleOutOfStock"
    /\ last.productId = "p2"
    /\ getEffectiveBehavior(shop, "c1") = "EXCLUDE"
    /\ getEffectiveBehavior(shop, "c2") = "PUSH_TO_END"
    /\ collections["c1"].products = <<"p1", "p2", "p3">>
    /\ collections["c2"].products = <<"p3", "p2">>
    /\ KeyRows(snapshots, "p2", "c1", "PUSHED_TO_END") = EmptyBag
    /\ published["p2"] = Publications
    /\ activityLog = <<[productId |-> "p2", action |-> "SKIPPED",
                        detail |-> <<"Excluded collection", "c1">>],
                       [productId |-> "p2", action |-> "DEPRIORITIZED",
                        detail |-> <<"Pushed to end of", "c2">>]>>

----------------------------------------------------------------------------
(* The steady state of an out-of-stock product (SpecFaults).               *)

\* The actions the behaviors of the product's collections ask for, under the
\* shop record the pass of the step uses, and the actions of its ACTIVE snapshots.
DesiredActions(p) ==
    {IF b = "HIDE" THEN "HIDDEN" ELSE "PUSHED_TO_END" :
        b \in currentBehaviors(World, PassShop, p) \cap {"HIDE", "PUSH_TO_END"}}

RecordedActions(p) ==
    {r.action : r \in {x \in DOMAIN snapshots : x.productId = p /\ x.status = "ACTIVE"}}

\* C32: when a product is fully out of stock and its ACTIVE snapshots match
\* the desired actions, a reconciliation pass (webhook or full sync) issues no
\* remote mutation, creates or changes no snapshot and appends no activity
\* record: it leaves everything as it is.
C32_SteadyStateUntouched ==
    [][\A p \in Products :
          /\ last'.op \in {"webhook", "sync"}
          /\ last'.productId = p
          /\ last'.branch # "throws"
          /\ isFullyOutOfStock(variants[p])
          /\ RecordedActions(p) # {}
          /\ RecordedActions(p) = DesiredActions(p)
          => /\ collections' = collections
             /\ published' = published
             /\ snapshots' = snapshots
             /\ activityLog' = activityLog]_vars

\* A full-sync pass has just left p2 alone: it is out of stock, pushed to the
\* end of c1 and hidden for c2, with the ACTIVE snapshots of both actions, and
\* the pass ran with a reorder of c1 set to be rejected.
C32_Witness ==
    /\ last.op = "sync"
    /\ last.productId = "p2"
    /\ last.branch = "none"
    /\ last.rej # {}
    /\ isFullyOutOfStock(variants["p2"])
    /\ getEffectiveBehavior(sync.shopRecord, "c2") = "HIDE"
    /\ getEffectiveBehavior(shop, "c2") = "HIDE"
    /\ shop.enabled
    /\ ActiveKeyRows(snapshots, "p2", "c1", "PUSHED_TO_END") # EmptyBag
    /\ ActiveRows(snapshots, "p2", "HIDDEN") # EmptyBag
    /\ collections["c1"].products = <<"p1", "p3", "p2">>
    /\ published["p2"] = {}

----------------------------------------------------------------------------
(* The life of a snapshot row (SpecEngine).                                *)

\* C33: applying an action again for a key that has an ACTIVE snapshot never
\* changes that snapshot: the row keeps its originalPosition and every other
\* field, whatever index the product holds at the later apply.
C33_ReapplyKeepsSnapshot ==
    [][\A p \in Products :
          /\ last'.op = "pushProductToEnd" /\ last'.productId = p
             => \A c \in CollectionIds :
                   ActiveKeyRows(snapshots, p, c, "PUSHED_TO_END") # EmptyBag
                   => ActiveKeyRows(snapshots', p, c, "PUSHED_TO_END")
                         = ActiveKeyRows(snapshots, p, c, "PUSHED_TO_END")
          /\ last'.op = "hideProduct" /\ last'.productId = p
             => \A pub \in Publications :
                   ActiveKeyRows(snapshots, p, pub, "HIDDEN") # EmptyBag
                   => ActiveKeyRows(snapshots', p, pub, "HIDDEN")
                         = ActiveKeyRows(snapshots, p, pub, "HIDDEN")]_vars

\* pushProductToEnd has just moved a product whose ACTIVE snapshot had recorded
\* index 1 while the product was at index 0: the snapshot still records 1.
C33_Witness ==
    /\ last.op = "pushProductToEnd"
    /\ last.success
    /\ LET p == last.productId
           c == last.collectionId
       IN  /\ findIndex(before.collections[c].products, p) = 0
           /\ findIndex(collections[c].products, p) = Len(collections[c].products) - 1
           /\ Len(collections[c].products) > 1
           /\ \E r \in DOMAIN ActiveKeyRows(before.snapshots, p, c, "PUSHED_TO_END") :
                 /\ RecordedPosition(r) = 1
                 /\ ActiveKeyRows(snapshots, p, c, "PUSHED_TO_END") = SetToBag({r})

Scopes == CollectionIds \cup Publications

ActiveCount(snaps, productId, scope, action) ==
    BagCardinality(ActiveKeyRows(snaps, productId, scope, action))

RestoredCount(snaps, productId, scope, action) ==
    BagCardinality(SubBagOf(snaps, {r \in DOMAIN snaps :
                                       SameKey(r, productId, scope, action, "RESTORED")}))

\* C34: a snapshot goes from ACTIVE to RESTORED and never back: a step that adds
\* a RESTORED row of a key takes an ACTIVE row of the key away, a step that adds
\* an ACTIVE row is an upsert that created it and leaves the RESTORED row of the
\* key alone, and no key ever has more than one RESTORED row, however the steps
\* of two invocations interleave.
C34_SnapshotLifecycle ==
    [][\A p \in Products, scope \in Scopes, action \in {"PUSHED_TO_END", "HIDDEN"} :
          /\ RestoredCount(snapshots', p, scope, action) <= 1
          /\ RestoredCount(snapshots', p, scope, action)
                > RestoredCount(snapshots, p, scope, action)
             => /\ last'.op = "update"
                /\ ActiveCount(snapshots', p, scope, action)
                      = ActiveCount(snapshots, p, scope, action) - 1
                /\ RestoredCount(snapshots, p, scope, action) = 0
          /\ ActiveCount(snapshots', p, scope, action)
                > ActiveCount(snapshots, p, scope, action)
             => /\ last'.op = "upsert"
                /\ last'.branch = "created"
                /\ RestoredCount(snapshots', p, scope, action)
                      = RestoredCount(snapshots, p, scope, action)]_vars

\* An upsert has just created the ACTIVE row of a key whose earlier snapshot is
\* RESTORED: the two rows stand side by side.
C34_Witness ==
    /\ last.op = "upsert"
    /\ last.branch = "created"
    /\ ActiveCount(snapshots, last.productId, last.collectionId, "PUSHED_TO_END") = 1
    /\ RestoredCount(snapshots, last.productId, last.collectionId, "PUSHED_TO_END") = 1

----------------------------------------------------------------------------
(* The processingLock of the webhook route (SpecLock).                     *)

\* The invocations that hold the key of an inventory item: in their pass, or
\* returned with the timer of the finally block still to fire.
Holders(hooks, inventoryItemId) ==
    {t \in Tasks : hooks[t].pc # "idle" /\ hooks[t].inventoryItemId = inventoryItemId}

\* C35: per (shop, inventoryItemId) at most one webhook pass is in progress or
\* cooling down, under any interleaving: a notification that finds the key
\* locked changes nothing (no snapshot, no remote state, no activity record,
\* no invocation started, the lock as it was), and one that starts a pass found
\* the key free.
C35_OnePassPerKey ==
    [][/\ \A i \in InventoryItems :
             /\ Cardinality(Holders(webhooks', i)) <= 1
             /\ Holders(webhooks', i) # {} => LockKey(i) \in processingLock'
       /\ last'.op = "webhook.receive" /\ last'.branch = "duplicate"
          => /\ processingLock # {}
             /\ UNCHANGED <<collections, published, snapshots, activityLog, webhooks,
                            processingLock, shop, variants, sync, tasks>>
       /\ last'.op = "webhook.receive" /\ webhooks' # webhooks
          => \E i \in InventoryItems :
                /\ LockKey(i) \notin processingLock
                /\ Holders(webhooks, i) = {}
                /\ Cardinality(Holders(webhooks', i)) = 1
                /\ processingLock' = processingLock \cup {LockKey(i)}]_vars

\* A notification for i1 has just been dropped while the other invocation is
\* in the write step of its pass for i1.
C35_Witness ==
    /\ last.op = "webhook.receive"
    /\ last.branch = "duplicate"
    /\ \E t \in Tasks : /\ webhooks[t].pc \in {"apply", "restore"}
                        /\ webhooks[t].inventoryItemId = "i1"
                        /\ \A u \in Tasks \ {t} : webhooks[u].pc = "idle"
    /\ processingLock = {LockKey("i1")}

----------------------------------------------------------------------------
(* The ways a webhook pass ends, and the release of its key.  Next to the   *)
(* inventory items of the catalog a notification may name an item the       *)
(* remote does not know, the merchant disables and enables the app, and any *)
(* await of a pass may throw.                                               *)

UnknownItem == "i0"
NotifiedItems == {"i1", UnknownItem}

\* Lines 64-65: checkProductInventory returns null for an item without
\* product, and the handler returns.
WebhookCheckMissing(t) ==
    /\ webhooks[t].pc = "check"
    /\ webhooks[t].inventoryItemId \notin InventoryItems
    /\ Handles(t, [webhooks[t] EXCEPT !.pc = "finally"])
    /\ last' = Op("webhook.check", NullId, NullId, {}, "notFound", NoResult)
    /\ UNCHANGED <<shop, variants, collections, published, snapshots, activityLog, sync,
                   steps, before, tasks, processingLock>>

WebhookCheckKnown(t) ==
    /\ webhooks[t].inventoryItemId \in InventoryItems
    /\ WebhookCheckInventory(t)

\* Lines 87-88: an await of the try block throws; the catch logs the error and
\* the handler goes on to its finally block.
WebhookThrow(t) ==
    /\ webhooks[t].pc \in {"load", "check", "find", "apply", "restore"}
    /\ Handles(t, [webhooks[t] EXCEPT !.pc = "finally"])
    /\ last' = Op("webhook.throw", webhooks[t].productId, NullId, {}, "caught", NoResult)
    /\ UNCHANGED <<shop, variants, collections, published, snapshots, activityLog, sync,
                   steps, before, tasks, processingLock>>

\* The steps of invocation t that the runtime takes by itself: the awaits
\* resolve and the timer fires.
WebhookProgress(t) ==
    \/ WebhookLoadShop(t)
    \/ WebhookCheckKnown(t)
    \/ WebhookCheckMissing(t)
    \/ WebhookFind(t)
    \/ WebhookApply(t)
    \/ WebhookRestore(t)
    \/ WebhookRelease(t)

NextRelease ==
    \/ \E vs \in StockLevels : Notified(SetInventory("p1", vs))
    \/ \E e \in BOOLEAN : Notified(UpdateSettings(e, shop.defaultBehavior, shop.applyToAll))
    \/ \E t \in Tasks, i \in NotifiedItems : Notified(WebhookReceive(t, i))
    \/ \E t \in Tasks : WebhookProgress(t)
    \/ \E t \in Tasks : WebhookThrow(t)

SpecRelease ==
    /\ InitCatalog("MANUAL", [p \in Products |-> IF p = "p1" THEN <<1, 1>> ELSE <<1>>],
                   [p \in Products |-> IF p = "p1" THEN Publications ELSE {}])
    /\ [][NextRelease]_vars
    /\ \A t \in Tasks : WF_vars(WebhookProgress(t))

\* C36: every pass that took the lock gives it back, however it ends: a key in
\* processingLock is removed eventually; the invocation that goes idle is the
\* one whose timer fired and its key is gone with it; and a notification that
\* arrives when the key is free starts a pass.
C36_LockReleased ==
    /\ \A i \in InventoryItems \cup NotifiedItems :
          (LockKey(i) \in processingLock) ~> (LockKey(i) \notin processingLock)
    /\ [][/\ \A t \in Tasks :
                webhooks[t].pc # "idle" /\ webhooks'[t].pc = "idle"
                => /\ webhooks[t].pc = "finally"
                   /\ LockKey(webhooks[t].inventoryItemId) \notin processingLock'
          /\ \A t \in Tasks :
                webhooks[t].pc \in {"load", "check", "find", "apply", "restore"}
                /\ webhooks'[t] # webhooks[t]
                /\ last'.op \in {"webhook.load", "webhook.check", "webhook.throw"}
                /\ last'.branch \in {"disabled", "notFound", "caught"}
                => /\ webhooks'[t].pc = "finally"
                   /\ LockKey(webhooks[t].inventoryItemId) \in processingLock'
          /\ last'.op = "webhook.receive" /\ processingLock = {}
             => last'.branch = "locked" /\ processingLock' # {}]_vars

\* The timer of a pass that ended before it knew its product (shop disabled,
\* item unknown, or an exception in the first awaits) has just fired: no key is
\* locked and no invocation is left.
C36_Witness ==
    /\ last.op = "webhook.release"
    /\ last.productId = NullId
    /\ processingLock = {}
    /\ \A t \in Tasks : webhooks[t].pc = "idle"

----------------------------------------------------------------------------
(* Pushes one after another and restores in the reverse order: the reorder  *)
(* engine called for the products of c1, the remote accepting every move.   *)
(* The history variable last keeps the products pushed and not yet          *)
(* restored, the last pushed last; before keeps the world before the first  *)
(* push.                                                                    *)

\* The orders c1 starts with: two or three of the products in any order.
Orders ==
    {s \in UNION {[1..n -> Products] : n \in 2..Len(ProductList)} :
        \A i, j \in 1..Len(s) : i # j => s[i] # s[j]}

InitOrders ==
    /\ shop = NewShop
    /\ variants = [p \in Products |-> <<0>>]
    /\ \E order \in Orders :
          collections = [c \in CollectionIds |->
                            [sortOrder |-> "MANUAL",
                             products |-> IF c = "c1" THEN order ELSE <<"p2", "p3">>]]
    /\ published = [p \in Products |-> {}]
    /\ snapshots = EmptyBag
    /\ activityLog = <<>>
    /\ sync = NoSync
    /\ steps = 0
    /\ before = World
    /\ tasks = [t \in Tasks |-> Idle]
    /\ webhooks = [t \in Tasks |-> NoWebhook]
    /\ processingLock = {}
    /\ last = Op("init", NullId, NullId, {}, "", NoResult)
                 @@ [pushed |-> <<>>, restoring |-> FALSE]

\* pushProductToEnd for a product of c1 not pushed yet, before any restore.
PushNext(productId) ==
    /\ ~ last.restoring
    /\ productId \in Range(collections["c1"].products)
    /\ productId \notin Range(last.pushed)
    /\ LET r == pushProductToEnd(World, productId, "c1", {})
       IN  /\ SetWorld(r.w)
           /\ last' = Op("pushProductToEnd", productId, "c1", {}, "", r.res)
                         @@ [pushed |-> Append(last.pushed, productId), restoring |-> FALSE]
    /\ UNCHANGED <<shop, variants, sync, steps, before, tasks, webhooks, processingLock>>

\* restoreProductPosition for the product pushed last among those not restored.
RestoreLastPushed ==
    /\ last.pushed # <<>>
    /\ LET productId == last.pushed[Len(last.pushed)]
           r == restoreProductPosition(World, productId, "c1", {})
       IN  /\ SetWorld(r.w)
           /\ last' = Op("restoreProductPosition", productId, "c1", {}, "", r.res)
                         @@ [pushed |-> SubSeq(last.pushed, 1, Len(last.pushed) - 1),
                             restoring |-> TRUE]
    /\ UNCHANGED <<shop, variants, sync, steps, before, tasks, webhooks, processingLock>>

NextOrders ==
    \/ \E p \in Products : PushNext(p)
    \/ RestoreLastPushed

SpecOrders == InitOrders /\ [][NextOrders]_vars

\* C37: products of a manually ordered collection pushed to the end one after
\* another and restored last pushed first, every move accepted and nothing else
\* changing the collection: after the last restore the collection has the order
\* it had before the first push.
C37_ReverseRestoreRoundTrip ==
    /\ last.op = "restoreProductPosition"
    /\ last.pushed = <<>>
    => collections["c1"].products = before.collections["c1"].products

\* Two products that were not last have been pushed and restored in reverse
\* order: two RESTORED snapshots, the second push recorded an index other than
\* that of the first, and the last restore has just returned.
C37_Witness ==
    /\ last.op = "restoreProductPosition"
    /\ last.success
    /\ last.pushed = <<>>
    /\ Len(collections["c1"].products) = 3
    /\ \E r1, r2 \in DOMAIN snapshots :
          /\ r1.productId # r2.productId
          /\ r1.status = "RESTORED" /\ r2.status = "RESTORED"
          /\ r1.collectionId = "c1" /\ r2.collectionId = "c1"
          /\ RecordedPosition(r1) = 1
          /\ RecordedPosition(r2) = 0

====
